---- MODULE Spec2Model ----
(***************************************************************************)
(* A model of pyiceberg's table module (pyiceberg/table/__init__.py):      *)
(* the Transaction / Table commit path against a catalog, the              *)
(* UpdateSchema builder with its _ApplyChanges visitor, and the DataScan   *)
(* planner; and of the FsspecFileIO of pyiceberg/io/fsspec.py.             *)
(*                                                                         *)
(* Names.  A dotted column name such as "location.lat" is the sequence of  *)
(* its dot-free atoms, <<"location", "lat">>; ".".join(parts) is the       *)
(* concatenation of the parts (Join).  A path argument is either a str     *)
(* (one possibly dotted part) or a tuple of parts.                         *)
(*                                                                         *)
(* Exceptions.  An operator that can raise returns a record                *)
(* [kind |-> "Error", exc |-> <exception class>] in place of its value;    *)
(* callers propagate it the way the raise unwinds the Python stack.        *)
(***************************************************************************)
EXTENDS Integers, Sequences, FiniteSets, TLC

VARIABLES
    catalog,    \* the catalog service: the table's metadata, its location, the calls it received
    tables,     \* the Table objects (handles on the one catalog table)
    txn,        \* the Transaction objects
    builders,   \* the UpdateSchema objects
    call,       \* history: the API call most recently made (or the statement most recently run)
    outcome,    \* history: what that call returned or raised
    accepted,   \* history: the builders whose schema change the catalog has accepted
    scans,      \* the DataScan objects
    plan,       \* the plan_files call in progress: its manifests, its workers, its result
    fileio,     \* the FsspecFileIO object and the filesystems behind it
    decoder     \* the Avro BinaryDecoder: its reader tree, its bytes, its position

vars == <<catalog, tables, txn, builders, call, outcome, accepted, scans, plan, fileio, decoder>>

(***************************************************************************)
(* Bounds of the model.                                                    *)
(***************************************************************************)
\* catalog._commit_table invocations explored
MaxCommits == 2
\* updates resp. requirements a transaction may hold staged
MaxStaged == 2
\* staging calls made on one UpdateSchema builder
MaxOps == 2

TABLE_ROOT_ID == -1

(***************************************************************************)
(* Generic helpers.                                                        *)
(***************************************************************************)
NoneValue == [kind |-> "None"]
NoDoc == "<None>"

Error(exc) == [kind |-> "Error", exc |-> exc]
\* v is a record; the records that stand for an exception or for None say so in "kind"
IsError(v) == "kind" \in DOMAIN v /\ v.kind = "Error"
IsNone(v) == "kind" \in DOMAIN v /\ v.kind = "None"

EmptyDict == [k \in {} |-> NoneValue]
DictHas(d, k) == k \in DOMAIN d
DictGet(d, k) == IF k \in DOMAIN d THEN d[k] ELSE NoneValue
DictSet(d, k, v) == [x \in (DOMAIN d) \cup {k} |-> IF x = k THEN v ELSE d[x]]

Max(S) == CHOOSE m \in S : \A x \in S : x <= m

RECURSIVE Flatten(_)
Flatten(parts) == IF parts = <<>> THEN <<>> ELSE Head(parts) \o Flatten(Tail(parts))

\* ".".join(path)
Join(parts) == Flatten(parts)

SeqRange(s) == {s[i] : i \in DOMAIN s}
FirstErrorOr(s, v) ==
    IF \E i \in DOMAIN s : IsError(s[i])
    THEN s[CHOOSE i \in DOMAIN s : IsError(s[i]) /\ \A j \in 1..(i - 1) : ~IsError(s[j])]
    ELSE v

(***************************************************************************)
(* Types and fields (pyiceberg.types).                                     *)
(***************************************************************************)
IntegerType == [kind |-> "int"]
LongType == [kind |-> "long"]
FloatType == [kind |-> "float"]
StringType == [kind |-> "string"]

NestedField(field_id, name, field_type, required, doc) ==
    [field_id |-> field_id, name |-> name, field_type |-> field_type,
     required |-> required, doc |-> doc]

StructType(fields) == [kind |-> "struct", fields |-> fields]
ListType(element_id, element, element_required) ==
    [kind |-> "list", element_id |-> element_id, element_type |-> element,
     element_required |-> element_required]
MapType(key_id, key_type, value_id, value_type, value_required) ==
    [kind |-> "map", key_id |-> key_id, key_type |-> key_type,
     value_id |-> value_id, value_type |-> value_type, value_required |-> value_required]

IsStruct(t) == t.kind = "struct"
IsPrimitive(t) == t.kind \in {"int", "long", "float", "string"}

element_field(t) == NestedField(t.element_id, <<"element">>, t.element_type, t.element_required, NoDoc)
key_field(t) == NestedField(t.key_id, <<"key">>, t.key_type, TRUE, NoDoc)
value_field(t) == NestedField(t.value_id, <<"value">>, t.value_type, t.value_required, NoDoc)

(***************************************************************************)
(* Schema (pyiceberg.schema): the name index, find_field, column_names,    *)
(* highest_field_id and assign_fresh_schema_ids.                           *)
(***************************************************************************)
INITIAL_SCHEMA_ID == 0

Schema(fields, schema_id) == [kind |-> "schema", fields |-> fields, schema_id |-> schema_id]

as_struct(schema) == StructType(schema.fields)

\* Every field reachable in a type, with its full name, its short name (the
\* name without the "element" / "value" step into a nested struct) and the
\* id of the field that holds it.
RECURSIVE IndexType(_, _, _, _)
IndexFieldsOf(fields, full, short, parent) ==
    UNION {
        {[name |-> full \o fields[i].name, short |-> short \o fields[i].name,
          field |-> fields[i], parent |-> parent]}
        \cup IndexType(fields[i].field_type, full \o fields[i].name,
                       short \o fields[i].name, fields[i].field_id)
        : i \in DOMAIN fields }
IndexType(t, full, short, parent) ==
    IF t.kind = "struct" THEN IndexFieldsOf(t.fields, full, short, parent)
    ELSE IF t.kind = "list" THEN
        {[name |-> full \o <<"element">>, short |-> short \o <<"element">>,
          field |-> element_field(t), parent |-> parent]}
        \cup IndexType(t.element_type, full \o <<"element">>,
                       IF IsStruct(t.element_type) THEN short ELSE short \o <<"element">>,
                       t.element_id)
    ELSE IF t.kind = "map" THEN
        {[name |-> full \o <<"value">>, short |-> short \o <<"value">>,
          field |-> value_field(t), parent |-> parent]}
        \cup IndexType(t.value_type, full \o <<"value">>,
                       IF IsStruct(t.value_type) THEN short ELSE short \o <<"value">>,
                       t.value_id)
    ELSE {}

IndexByName(schema) == IndexType(as_struct(schema), <<>>, <<>>, TABLE_ROOT_ID)

\* str.lower() on the atoms of a name
LowerAtom(a) ==
    CASE a = "ID" -> "id"
      [] a = "Data" -> "data"
      [] OTHER -> a
Lower(name) == [i \in DOMAIN name |-> LowerAtom(name[i])]

\* Schema.find_field(name, case_sensitive): the field, or ValueError
find_field(schema, name, case_sensitive) ==
    LET idx == IndexByName(schema)
        Eq(n) == IF case_sensitive THEN n = name ELSE Lower(n) = Lower(name)
        byFull == {e \in idx : Eq(e.name)}
        byShort == {e \in idx : Eq(e.short)}
    IN  IF byFull # {} THEN (CHOOSE e \in byFull : TRUE).field
        ELSE IF byShort # {} THEN (CHOOSE e \in byShort : TRUE).field
        ELSE Error("ValueError")

\* the ids of a type, map keys included
RECURSIVE TypeIds(_)
TypeIds(t) ==
    IF t.kind = "struct"
    THEN UNION {{t.fields[i].field_id} \cup TypeIds(t.fields[i].field_type) : i \in DOMAIN t.fields}
    ELSE IF t.kind = "list" THEN {t.element_id} \cup TypeIds(t.element_type)
    ELSE IF t.kind = "map"
    THEN {t.key_id, t.value_id} \cup TypeIds(t.key_type) \cup TypeIds(t.value_type)
    ELSE {}

highest_field_id(schema) ==
    LET ids == TypeIds(as_struct(schema)) IN IF ids = {} THEN 0 ELSE Max(ids)

\* Schema.column_names: the full name of every column, in id order
RECURSIVE SortedNames(_, _)
SortedNames(idx, acc) ==
    IF idx = {} THEN acc
    ELSE LET e == CHOOSE x \in idx : \A y \in idx : x.field.field_id <= y.field.field_id
         IN  SortedNames(idx \ {e}, Append(acc, e.name))
column_names(schema) == SortedNames(IndexByName(schema), <<>>)

\* assign_fresh_schema_ids(type, next_id): the type with every id drawn anew
\* from the counter; a struct's fields draw their ids before their types do.
\* Returns the new type and the counter's next value.
RECURSIVE FreshType(_, _), FreshFieldTypes(_, _, _)
FreshFieldTypes(fields, i, next) ==
    IF i > Len(fields) THEN [fields |-> <<>>, next |-> next]
    ELSE LET r == FreshType(fields[i].field_type, next)
             rest == FreshFieldTypes(fields, i + 1, r.next)
         IN  [fields |-> <<r.type>> \o rest.fields, next |-> rest.next]
FreshType(t, next) ==
    IF t.kind = "struct" THEN
        LET n == Len(t.fields)
            sub == FreshFieldTypes(t.fields, 1, next + n)
        IN  [type |-> StructType([i \in 1..n |->
                        NestedField(next + i - 1, t.fields[i].name, sub.fields[i],
                                    t.fields[i].required, t.fields[i].doc)]),
             next |-> sub.next]
    ELSE IF t.kind = "list" THEN
        LET r == FreshType(t.element_type, next + 1)
        IN  [type |-> ListType(next, r.type, t.element_required), next |-> r.next]
    ELSE IF t.kind = "map" THEN
        LET k == FreshType(t.key_type, next + 2)
            v == FreshType(t.value_type, k.next)
        IN  [type |-> MapType(next, k.type, next + 1, v.type, t.value_required), next |-> v.next]
    ELSE [type |-> t, next |-> next]
assign_fresh_schema_ids(field_type, next) == FreshType(field_type, next)

(***************************************************************************)
(* Move, _add_fields, _move_fields, _add_and_move_fields.                  *)
(***************************************************************************)
Move(field_id, op, other_field_id) ==
    [field_id |-> field_id, op |-> op, other_field_id |-> other_field_id]

\* tuple(*fields, *adds): tuple() takes at most one argument, so the call
\* raises TypeError as soon as fields and adds hold two or more entries
\* together.  With exactly one entry, tuple(field) iterates the field's
\* (attribute, value) pairs, which the caller's StructType(*new_fields)
\* rejects with a ValidationError.
_add_fields(fields, adds) ==
    IF Len(adds) = 0 THEN NoneValue
    ELSE IF Len(fields) + Len(adds) >= 2 THEN Error("TypeError")
    ELSE Error("ValidationError")

InsertAt(s, pos, x) == SubSeq(s, 1, pos - 1) \o <<x>> \o SubSeq(s, pos, Len(s))

\* a Python tuple of fields, as a value that can stand where None or an exception can
Tuple(items) == [kind |-> "tuple", items |-> items]

\* one move applied to the reordered list; next(...) on no match raises StopIteration
MoveOne(reordered, move) ==
    IF ~\E i \in DOMAIN reordered : reordered[i].field_id = move.field_id
    THEN Error("StopIteration")
    ELSE
        LET field == reordered[CHOOSE i \in DOMAIN reordered :
                        /\ reordered[i].field_id = move.field_id
                        /\ \A j \in 1..(i - 1) : reordered[j].field_id # move.field_id]
            without == SelectSeq(reordered, LAMBDA f : f.field_id # move.field_id)
        IN  IF move.op = "First" THEN Tuple(<<field>> \o without)
            ELSE IF move.op \in {"Before", "After"} THEN
                IF ~\E i \in DOMAIN without : without[i].field_id = move.other_field_id
                THEN Error("StopIteration")
                ELSE
                    LET other_field_pos ==
                            CHOOSE i \in DOMAIN without :
                                /\ without[i].field_id = move.other_field_id
                                /\ \A j \in 1..(i - 1) : without[j].field_id # move.other_field_id
                    IN  IF move.op = "Before"
                        THEN Tuple(InsertAt(without, other_field_pos, field))
                        ELSE Tuple(InsertAt(without, other_field_pos + 1, field))
            ELSE Error("ValueError")

RECURSIVE MoveAll(_, _)
MoveAll(reordered, moves) ==
    IF IsError(reordered) \/ moves = <<>> THEN reordered
    ELSE MoveAll(MoveOne(reordered.items, Head(moves)), Tail(moves))

_move_fields(fields, moves) == MoveAll(Tuple(fields), moves)

_add_and_move_fields(fields, adds, moves) ==
    IF Len(adds) > 0 THEN
        LET added == _add_fields(fields, adds)
        IN  IF Len(moves) > 0
            THEN (IF IsError(added) THEN added ELSE _move_fields(added.items, moves))
            ELSE added
    ELSE IF Len(moves) > 0 THEN _move_fields(fields, moves)
    ELSE NoneValue

(***************************************************************************)
(* _ApplyChanges: the visitor that rebuilds the schema from the staged     *)
(* changes, and visit, the bottom-up fold that drives it.                  *)
(***************************************************************************)
_ApplyChanges(adds, updates, deletes, moves) ==
    [adds |-> adds, updates |-> updates, deletes |-> deletes, moves |-> moves]

\* "if new_fields := ...: return StructType(*new_fields)", else the result so far
StructOfOr(new_fields, otherwise) ==
    IF IsError(new_fields) THEN new_fields
    ELSE IF ~IsNone(new_fields) /\ Len(new_fields.items) > 0 THEN StructType(new_fields.items)
    ELSE otherwise

_ApplyChanges_schema(self, schema, struct_result) ==
    LET adds == IF DictHas(self.adds, TABLE_ROOT_ID) THEN self.adds[TABLE_ROOT_ID] ELSE <<>>
    IN  StructOfOr(_add_fields(struct_result.fields, adds), struct_result)

\* self._updates.get(field) looks the NestedField itself up in a dict keyed by
\* field id: no key equals it, so the lookup yields None for every field and
\* name, doc and required stay the field's own.
_ApplyChanges_struct(self, struct, field_results) ==
    LET kept == SelectSeq([i \in DOMAIN field_results |-> i],
                          LAMBDA idx : ~IsNone(field_results[idx]))
        new_fields == [k \in DOMAIN kept |->
            LET field == struct.fields[kept[k]]
                result_type == field_results[kept[k]]
                name == field.name
                doc == field.doc
                required == field.required
            IN  IF field.name = name /\ field.field_type = result_type
                   /\ field.required = required /\ field.doc = doc
                THEN field
                ELSE NestedField(field.field_id, field.name, result_type,
                                 field.required, field.doc)]
    IN  StructType(new_fields)

_ApplyChanges_field(self, field, field_result) ==
    IF field.field_id \in self.deletes THEN NoneValue
    ELSE IF DictHas(self.updates, field.field_id)
            /\ field.field_type # self.updates[field.field_id].field_type
    THEN self.updates[field.field_id].field_type
    ELSE IF DictHas(self.adds, field.field_id) \/ DictHas(self.moves, field.field_id) THEN
        IF ~IsStruct(field.field_type) THEN Error("ValueError")
        ELSE
            LET added == IF DictHas(self.adds, field.field_id)
                         THEN self.adds[field.field_id] ELSE <<>>
                moves == IF DictHas(self.moves, field.field_id)
                         THEN self.moves[field.field_id] ELSE <<>>
            IN  StructOfOr(_add_and_move_fields(field.field_type.fields, added, moves),
                           field_result)
    ELSE field_result

ListOf(list_type, element_type) ==
    IF IsError(element_type) THEN element_type
    ELSE IF IsNone(element_type) THEN Error("ValueError")
    ELSE ListType(list_type.element_id, element_type, list_type.element_required)

_ApplyChanges_list(self, list_type, element_result) ==
    ListOf(list_type, _ApplyChanges_field(self, element_field(list_type), element_result))

MapOf(map_type, value_type) ==
    IF IsError(value_type) THEN value_type
    ELSE IF IsNone(value_type) THEN Error("ValueError")
    ELSE MapType(map_type.key_id, map_type.key_type, map_type.value_id,
                 value_type, map_type.value_required)

_ApplyChanges_map(self, map_type, key_result, value_result) ==
    IF DictHas(self.adds, map_type.key_id) THEN Error("ValueError")
    ELSE MapOf(map_type, _ApplyChanges_field(self, value_field(map_type), value_result))

_ApplyChanges_primitive(self, primitive) == primitive

\* visit(obj, visitor): children first, then the visitor's method for the
\* node; an exception raised below a node leaves the walk at once.
VisitedField(visitor, field, result) ==
    IF IsError(result) THEN result ELSE _ApplyChanges_field(visitor, field, result)
VisitedStruct(visitor, struct, results) ==
    FirstErrorOr(results, _ApplyChanges_struct(visitor, struct, results))
VisitedList(visitor, list_type, result) ==
    IF IsError(result) THEN result ELSE _ApplyChanges_list(visitor, list_type, result)
VisitedMap(visitor, map_type, key_result, value_result) ==
    IF IsError(key_result) THEN key_result
    ELSE IF IsError(value_result) THEN value_result
    ELSE _ApplyChanges_map(visitor, map_type, key_result, value_result)
VisitedSchema(visitor, schema, struct_result) ==
    IF IsError(struct_result) THEN struct_result
    ELSE _ApplyChanges_schema(visitor, schema, struct_result)

RECURSIVE visit_type(_, _)
visit_type(t, visitor) ==
    IF t.kind = "struct" THEN
        VisitedStruct(visitor, t,
            [i \in DOMAIN t.fields |->
                VisitedField(visitor, t.fields[i], visit_type(t.fields[i].field_type, visitor))])
    ELSE IF t.kind = "list" THEN
        VisitedList(visitor, t, visit_type(t.element_type, visitor))
    ELSE IF t.kind = "map" THEN
        VisitedMap(visitor, t, visit_type(t.key_type, visitor), visit_type(t.value_type, visitor))
    ELSE _ApplyChanges_primitive(visitor, t)

visit(schema, visitor) == VisitedSchema(visitor, schema, visit_type(as_struct(schema), visitor))

(***************************************************************************)
(* UpdateSchema: the builder object and its staging methods.  A method is  *)
(* an operator from the object (and the arguments) to                      *)
(* [self |-> the object after the call, exc |-> "none" or the exception].  *)
(* The field log is history: the staging calls made on the object so far.  *)
(***************************************************************************)
\* path arguments: a str, or a tuple of str
StrPath(name) == [is_str |-> TRUE, parts |-> <<name>>]
TuplePath(parts) == [is_str |-> FALSE, parts |-> parts]
\* path = (path,) if isinstance(path, str) else path
AsTuple(path) == path.parts

UpdateSchema(schema, table, transaction, allow_incompatible_changes, case_sensitive) ==
    [alive |-> TRUE,
     table |-> table,
     schema |-> schema,
     last_column_id |-> highest_field_id(schema) + 1,
     identifier_field_names |-> column_names(schema),
     adds |-> EmptyDict,
     updates |-> EmptyDict,
     deletes |-> {},
     moves |-> EmptyDict,
     added_name_to_id |-> EmptyDict,
     id_to_parent |-> EmptyDict,
     allow_incompatible_changes |-> allow_incompatible_changes,
     case_sensitive |-> case_sensitive,
     transaction |-> transaction,
     log |-> <<>>]

Return(self) == [self |-> self, exc |-> "none"]
Raise(self, exc) == [self |-> self, exc |-> exc]

\* an add_column that draws the new id before it looks for the name in the schema
add_column_id_drawn_first(self, path, field_type, doc, required) ==
    LET parts == AsTuple(path)
        name == parts[Len(parts)]
        parent == SubSeq(parts, 1, Len(parts) - 1)
        full_name == Join(parts)
        found == find_field(self.schema, Join(parent), self.case_sensitive)
        parent_field ==
            IF found.field_type.kind = "map" THEN value_field(found.field_type)
            ELSE IF found.field_type.kind = "list" THEN element_field(found.field_type)
            ELSE found
        parent_id == IF Len(parent) > 0 THEN parent_field.field_id ELSE TABLE_ROOT_ID
        exists == ~IsError(find_field(self.schema, full_name, self.case_sensitive))
        new_id == self.last_column_id
        fresh == assign_fresh_schema_ids(field_type, new_id + 1)
        field == NestedField(new_id, name, fresh.type, required, doc)
        old_adds == IF DictHas(self.adds, parent_id) THEN self.adds[parent_id] ELSE <<>>
    IN  IF Len(name) > 1 THEN Raise(self, "ValueError")
        ELSE IF required /\ ~self.allow_incompatible_changes THEN Raise(self, "ValueError")
        ELSE IF Len(parent) > 0 /\ IsError(found) THEN Raise(self, "ValueError")
        ELSE IF Len(parent) > 0 /\ ~IsStruct(parent_field.field_type) THEN Raise(self, "ValueError")
        ELSE IF exists THEN Raise([self EXCEPT !.last_column_id = new_id + 1], "ValueError")
        ELSE Return([self EXCEPT
                !.last_column_id = fresh.next,
                !.added_name_to_id = DictSet(@, full_name, new_id),
                !.adds = DictSet(@, parent_id, Append(old_adds, field))])

\* UpdateSchema.add_column
add_column(self, path, field_type, doc, required) ==
    LET parts == AsTuple(path)
        name == parts[Len(parts)]
        parent == SubSeq(parts, 1, Len(parts) - 1)
        full_name == Join(parts)
        found == find_field(self.schema, Join(parent), self.case_sensitive)
        parent_field ==
            IF found.field_type.kind = "map" THEN value_field(found.field_type)
            ELSE IF found.field_type.kind = "list" THEN element_field(found.field_type)
            ELSE found
        parent_id == IF Len(parent) > 0 THEN parent_field.field_id ELSE TABLE_ROOT_ID
        exists == ~IsError(find_field(self.schema, full_name, self.case_sensitive))
        new_id == self.last_column_id
        fresh == assign_fresh_schema_ids(field_type, new_id + 1)
        field == NestedField(new_id, name, fresh.type, required, doc)
        old_adds == IF DictHas(self.adds, parent_id) THEN self.adds[parent_id] ELSE <<>>
    IN  IF Len(name) > 1 THEN Raise(self, "ValueError")
        ELSE IF required /\ ~self.allow_incompatible_changes THEN Raise(self, "ValueError")
        ELSE IF Len(parent) > 0 /\ IsError(found) THEN Raise(self, "ValueError")
        ELSE IF Len(parent) > 0 /\ ~IsStruct(parent_field.field_type) THEN Raise(self, "ValueError")
        ELSE IF exists THEN Raise(self, "ValueError")
        ELSE Return([self EXCEPT
                !.last_column_id = fresh.next,
                !.added_name_to_id = DictSet(@, full_name, new_id),
                !.adds = DictSet(@, parent_id, Append(old_adds, field))])

delete_column(self, path) ==
    LET full_name == Join(AsTuple(path))
        field == find_field(self.schema, full_name, self.case_sensitive)
    IN  IF IsError(field) THEN Raise(self, "ValueError")
        ELSE IF DictHas(self.adds, field.field_id) THEN Raise(self, "ValueError")
        ELSE IF DictHas(self.updates, field.field_id) THEN Raise(self, "ValueError")
        ELSE Return([self EXCEPT !.deletes = @ \cup {field.field_id}])

\* list.remove(x): drops the first occurrence
ListRemove(s, x) ==
    LET first == CHOOSE i \in DOMAIN s : s[i] = x /\ \A j \in 1..(i - 1) : s[j] # x
    IN  SubSeq(s, 1, first - 1) \o SubSeq(s, first + 1, Len(s))

\* the updated field staged for field_id, else the schema's field
StagedOr(self, field) ==
    IF DictHas(self.updates, field.field_id) THEN self.updates[field.field_id] ELSE field

rename_column(self, path_from, path_to) ==
    LET full_name_from == Join(AsTuple(path_from))
        full_name_to == Join(AsTuple(path_to))
        from_field == find_field(self.schema, full_name_from, self.case_sensitive)
        base == StagedOr(self, from_field)
        renamed == NestedField(base.field_id, full_name_to, base.field_type,
                               base.required, base.doc)
        \* path_from in self._identifier_field_names: a tuple equals no str
        is_identifier == path_from.is_str
                         /\ full_name_from \in SeqRange(self.identifier_field_names)
    IN  IF IsError(from_field) THEN Raise(self, "ValueError")
        ELSE IF from_field.field_id \in self.deletes THEN Raise(self, "ValueError")
        ELSE Return([self EXCEPT
                !.updates = DictSet(@, from_field.field_id, renamed),
                !.identifier_field_names =
                    IF is_identifier
                    THEN Append(ListRemove(@, full_name_from), full_name_to)
                    ELSE @])

_set_column_requirement(self, path, required) ==
    LET name == Join(AsTuple(path))
        field == find_field(self.schema, name, TRUE)
        base == StagedOr(self, field)
    IN  IF IsError(field) THEN Raise(self, "ValueError")
        ELSE IF (field.required /\ required) \/ (~field.required /\ ~required) THEN Return(self)
        ELSE IF self.allow_incompatible_changes /\ ~required THEN Raise(self, "ValueError")
        ELSE IF field.field_id \in self.deletes THEN Raise(self, "ValueError")
        ELSE Return([self EXCEPT !.updates = DictSet(@, field.field_id,
                NestedField(base.field_id, base.name, base.field_type, required, base.doc))])

require_column(self, path) == _set_column_requirement(self, path, TRUE)

make_column_optional(self, path) == _set_column_requirement(self, path, FALSE)

update_column(self, path, field_type) ==
    LET full_name == Join(AsTuple(path))
        field == find_field(self.schema, full_name, TRUE)
        base == StagedOr(self, field)
    IN  IF IsError(field) THEN Raise(self, "ValueError")
        ELSE IF field.field_id \in self.deletes THEN Raise(self, "ValueError")
        ELSE IF field.field_type = field_type THEN Return(self)
        ELSE Return([self EXCEPT !.updates = DictSet(@, field.field_id,
                NestedField(base.field_id, base.name, field_type, base.required, base.doc))])

update_column_doc(self, path, doc) ==
    LET full_name == Join(AsTuple(path))
        field == find_field(self.schema, full_name, TRUE)
        base == StagedOr(self, field)
    IN  IF IsError(field) THEN Raise(self, "ValueError")
        ELSE IF field.field_id \in self.deletes THEN Raise(self, "ValueError")
        ELSE IF field.doc = doc THEN Return(self)
        ELSE Return([self EXCEPT !.updates = DictSet(@, field.field_id,
                NestedField(base.field_id, base.name, base.field_type, base.required, doc))])

\* the field id for a name, or -- when neither the schema nor the added
\* columns know the name -- None
NoId == -2
_find_for_move(self, name) ==
    LET field == find_field(self.schema, name, self.case_sensitive)
    IN  IF ~IsError(field) THEN field.field_id
        ELSE IF DictHas(self.added_name_to_id, name) THEN self.added_name_to_id[name]
        ELSE NoId

\* _id_to_parent is created empty and no method writes it, so every lookup
\* in it is None and each move is staged under TABLE_ROOT_ID.
_move(self, full_name, move) ==
    LET StageUnder(parent_id) ==
            LET old == IF DictHas(self.moves, parent_id) THEN self.moves[parent_id] ELSE <<>>
            IN  Return([self EXCEPT !.moves = DictSet(@, parent_id, Append(old, move))])
    IN  IF DictHas(self.id_to_parent, move.field_id) THEN
            LET parent_field == find_field(self.schema, self.id_to_parent[move.field_id], TRUE)
            IN  IF IsError(parent_field) THEN Raise(self, "ValueError")
                ELSE IF ~IsStruct(parent_field.field_type) THEN Raise(self, "ValueError")
                ELSE IF move.op \in {"After", "Before"} /\ move.other_field_id = NoId
                THEN Raise(self, "ValueError")
                ELSE IF move.op \in {"After", "Before"}
                        /\ DictGet(self.id_to_parent, move.field_id)
                           # DictGet(self.id_to_parent, move.other_field_id)
                THEN Raise(self, "ValueError")
                ELSE StageUnder(parent_field.field_id)
        ELSE
            IF move.op \in {"After", "Before"} /\ move.other_field_id = NoId
            THEN Raise(self, "ValueError")
            ELSE IF move.op \in {"After", "Before"} /\ DictHas(self.id_to_parent, move.other_field_id)
            THEN Raise(self, "ValueError")
            ELSE StageUnder(TABLE_ROOT_ID)

move_first(self, path) ==
    LET full_name == Join(AsTuple(path))
        field_id == _find_for_move(self, full_name)
    IN  IF field_id = NoId THEN Raise(self, "ValueError")
        ELSE _move(self, full_name, Move(field_id, "First", NoId))

move_before(self, path, before_path) ==
    LET full_name == Join(AsTuple(path))
        field_id == _find_for_move(self, full_name)
        before_full_name == Join(AsTuple(before_path))
        before_field_id == _find_for_move(self, before_full_name)
    IN  IF field_id = NoId THEN Raise(self, "ValueError")
        ELSE IF before_field_id = NoId THEN Raise(self, "ValueError")
        ELSE IF field_id = before_field_id THEN Raise(self, "ValueError")
        ELSE _move(self, full_name, Move(field_id, "Before", before_field_id))

move_after(self, path, after_name) ==
    LET full_name == Join(AsTuple(path))
        field_id == _find_for_move(self, full_name)
        after_full_name == Join(AsTuple(after_name))
        after_field_id == _find_for_move(self, after_full_name)
    IN  IF field_id = NoId THEN Raise(self, "ValueError")
        ELSE IF after_field_id = NoId THEN Raise(self, "ValueError")
        ELSE IF field_id = after_field_id THEN Raise(self, "ValueError")
        ELSE _move(self, full_name, Move(field_id, "After", after_field_id))

allow_incompatible_changes(self) == Return([self EXCEPT !.allow_incompatible_changes = TRUE])

\* UpdateSchema._apply after the visit: the new Schema, or the exception
Applied(self, struct) ==
    IF IsError(struct) THEN struct
    ELSE IF IsNone(struct) THEN Error("ValueError")
    ELSE IF \E i \in DOMAIN self.identifier_field_names :
                IsError(find_field(Schema(struct.fields, INITIAL_SCHEMA_ID),
                                   self.identifier_field_names[i], TRUE))
    THEN Error("ValueError")
    ELSE Schema(struct.fields, INITIAL_SCHEMA_ID)

_apply(self) ==
    Applied(self, visit(self.schema,
                        _ApplyChanges(self.adds, self.updates, self.deletes, self.moves)))

(***************************************************************************)
(* Table updates, table requirements and the commit request.               *)
(***************************************************************************)
SetPropertiesUpdate(updates) == [action |-> "set-properties", updates |-> updates]
RemovePropertiesUpdate(removals) == [action |-> "remove-properties", removals |-> removals]
AddSchemaUpdate(schema, last_column_id) ==
    [action |-> "add-schema", schema_ |-> schema, last_column_id |-> last_column_id]
SetCurrentSchemaUpdate(schema_id) == [action |-> "set-current-schema", schema_id |-> schema_id]

AssertTableUUID(uuid) == [type |-> "assert-table-uuid", uuid |-> uuid]
AssertCurrentSchemaId(current_schema_id) ==
    [type |-> "assert-current-schema-id", current_schema_id |-> current_schema_id]

CommitTableRequest(identifier, requirements, updates) ==
    [identifier |-> identifier, requirements |-> requirements, updates |-> updates]

(***************************************************************************)
(* Transaction.                                                            *)
(***************************************************************************)
\* the with statement that manages a transaction: where it is ("none" when the
\* transaction is not managed by one), the exception that ended its block
\* and how often its __exit__ has called commit_transaction
WithBlock(pc, value, commits) == [pc |-> pc, value |-> value, commits |-> commits]
NoBlock == WithBlock("none", "none", 0)

\* staged_by is history: the builders whose commit() staged updates here
Transaction(table) ==
    [table |-> table, updates |-> <<>>, requirements |-> <<>>, staged_by |-> {},
     block |-> NoBlock]

\* The loop compares each new update with the staged ones only; the new
\* updates of one call are not compared with each other.
_append_updates(self, new_updates) ==
    IF \E n \in DOMAIN new_updates : \E i \in DOMAIN self.updates :
            self.updates[i].action = new_updates[n].action
    THEN Raise(self, "ValueError")
    ELSE Return([self EXCEPT !.updates = @ \o new_updates])

\* any(type(requirement) == type_new_requirement for update in self._requirements):
\* the generator compares the new requirement's type with itself, once per
\* staged requirement.
_append_requirements(self, new_requirements) ==
    IF \E n \in DOMAIN new_requirements : \E i \in DOMAIN self.requirements :
            new_requirements[n].type = new_requirements[n].type
    THEN Raise(self, "ValueError")
    ELSE Return([self EXCEPT !.requirements = @ \o new_requirements])

set_properties(self, updates) == _append_updates(self, <<SetPropertiesUpdate(updates)>>)

remove_properties(self, removals) == _append_updates(self, <<RemovePropertiesUpdate(removals)>>)

(***************************************************************************)
(* The catalog service behind Catalog._commit_table.  It checks the        *)
(* request's requirements against the table's metadata, applies the        *)
(* updates in order, writes the new metadata file and answers with the     *)
(* metadata and the file's location.                                       *)
(***************************************************************************)
TableMetadata(table_uuid, schemas, current_schema_id, last_column_id, properties) ==
    [table_uuid |-> table_uuid, schemas |-> schemas, current_schema_id |-> current_schema_id,
     last_column_id |-> last_column_id, properties |-> properties]

RequirementHolds(metadata, r) ==
    CASE r.type = "assert-table-uuid" -> metadata.table_uuid = r.uuid
      [] r.type = "assert-current-schema-id" -> metadata.current_schema_id = r.current_schema_id
      [] OTHER -> TRUE

\* one update applied; added is the id of the schema last added by this commit
ApplyUpdate(st, u) ==
    LET m == st.metadata
    IN  CASE u.action = "add-schema" ->
                LET new_id == Max({m.schemas[i].schema_id : i \in DOMAIN m.schemas}) + 1
                IN  [metadata |-> [m EXCEPT
                        !.schemas = Append(@, [u.schema_ EXCEPT !.schema_id = new_id]),
                        !.last_column_id = Max({@, u.last_column_id})],
                     added |-> new_id]
          [] u.action = "set-current-schema" ->
                [metadata |-> [m EXCEPT !.current_schema_id =
                        IF u.schema_id = -1 THEN st.added ELSE u.schema_id],
                 added |-> st.added]
          [] u.action = "set-properties" ->
                [metadata |-> [m EXCEPT !.properties =
                        {kv \in @ : \A n \in u.updates : n[1] # kv[1]} \cup u.updates],
                 added |-> st.added]
          [] u.action = "remove-properties" ->
                [metadata |-> [m EXCEPT !.properties =
                        {kv \in @ : kv[1] \notin u.removals}],
                 added |-> st.added]
          [] OTHER -> st

RECURSIVE ApplyUpdates(_, _)
ApplyUpdates(st, updates) ==
    IF updates = <<>> THEN st ELSE ApplyUpdates(ApplyUpdate(st, Head(updates)), Tail(updates))

\* the answer to a request: the new metadata, or CommitFailedException
CommitTableResponse(metadata, request) ==
    IF \E i \in DOMAIN request.requirements : ~RequirementHolds(metadata, request.requirements[i])
    THEN Error("CommitFailedException")
    ELSE [kind |-> "response",
          metadata |-> ApplyUpdates([metadata |-> metadata, added |-> metadata.current_schema_id],
                                    request.updates).metadata]

\* the catalog after serving the request
_commit_table(cat, request) ==
    LET response == CommitTableResponse(cat.metadata, request)
    IN  IF IsError(response)
        THEN [cat EXCEPT !.calls = @ + 1, !.reply = "CommitFailedException", !.request = request]
        ELSE [cat EXCEPT
                !.calls = @ + 1, !.reply = "ok", !.request = request,
                !.metadata = response.metadata,
                !.metadata_location = @ + 1,
                !.files = Append(@, response.metadata)]

(***************************************************************************)
(* Table.                                                                  *)
(***************************************************************************)
\* pc and response hold the position inside _do_commit: after
\* "self.metadata = response.metadata" the object waits at "assign_location"
\* for "self.metadata_location = response.metadata_location".
Table(identifier, metadata, metadata_location) ==
    [identifier |-> identifier, metadata |-> metadata, metadata_location |-> metadata_location,
     pc |-> "idle", response |-> NoneValue]

\* Table.schema()
Table_schema(self) ==
    LET schemas == self.metadata.schemas
        first == CHOOSE i \in DOMAIN schemas :
                    /\ schemas[i].schema_id = self.metadata.current_schema_id
                    /\ \A j \in 1..(i - 1) : schemas[j].schema_id # self.metadata.current_schema_id
    IN  schemas[first]

(***************************************************************************)
(* Snapshots, manifests and their entries (pyiceberg.table.snapshots,      *)
(* pyiceberg.manifest) and the evaluators of pyiceberg.expressions.        *)
(*                                                                         *)
(* An Optional[int] is <<>> for None and <<n>> for the number n.  A file   *)
(* path is a number: paths compare as their numbers do.  The verdict of    *)
(* the manifest, partition and metrics evaluators on the one restricting   *)
(* row filter of the model is recorded with each manifest and data file;   *)
(* ALWAYS_TRUE matches everything.                                         *)
(***************************************************************************)
INITIAL_SEQUENCE_NUMBER == 0

NoNumber == <<>>
Some(n) == <<n>>
\* Python's truth value of an Optional[int]: None and 0 are false
Truthy(value) == value # <<>> /\ value[1] # 0
\* Python's "value or default"
OrElse(value, default) == IF Truthy(value) THEN value[1] ELSE default

Min(S) == CHOOSE m \in S : \A x \in S : m <= x

DataFile(content, file_path, lower_bound, upper_bound, partition_match, metrics_match) ==
    [content |-> content, file_path |-> file_path, file_size_in_bytes |-> 100 + file_path,
     lower_bound |-> lower_bound, upper_bound |-> upper_bound,
     partition_match |-> partition_match, metrics_match |-> metrics_match]

ManifestEntry(status, data_sequence_number, data_file) ==
    [status |-> status, data_sequence_number |-> data_sequence_number, data_file |-> data_file]

ManifestFile(manifest_path, content, spec_id, sequence_number, min_sequence_number, summary_match, entries) ==
    [manifest_path |-> manifest_path, content |-> content,
     partition_spec_id |-> spec_id, sequence_number |-> sequence_number,
     min_sequence_number |-> min_sequence_number, summary_match |-> summary_match,
     entries |-> entries]

\* ManifestFile.fetch_manifest_entry(io, discard_deleted)
fetch_manifest_entry(manifest, discard_deleted) ==
    SelectSeq(manifest.entries, LAMBDA entry : ~discard_deleted \/ entry.status # "DELETED")

\* a snapshot that records the schema it was written with (Optional[int])
SnapshotOfSchema(snapshot_id, manifest_list, schema_id) ==
    [kind |-> "Snapshot", snapshot_id |-> snapshot_id, manifest_list |-> manifest_list,
     schema_id |-> schema_id]

Snapshot(snapshot_id, manifest_list) == SnapshotOfSchema(snapshot_id, manifest_list, NoNumber)

\* Snapshot.manifests(io)
Snapshot_manifests(snapshot) == snapshot.manifest_list

SnapshotRef(snapshot_id) == [snapshot_id |-> snapshot_id]

\* table metadata that also carries snapshots and refs
WithSnapshots(metadata, current_snapshot_id, snapshots, refs) ==
    [schemas |-> metadata.schemas,
     table_uuid |-> metadata.table_uuid,
     current_schema_id |-> metadata.current_schema_id,
     last_column_id |-> metadata.last_column_id, properties |-> metadata.properties,
     current_snapshot_id |-> current_snapshot_id, snapshots |-> snapshots, refs |-> refs]

ALWAYS_TRUE == "AlwaysTrue"

\* visitors.manifest_evaluator(spec, schema, partition_filter, case_sensitive)(manifest)
manifest_evaluator(row_filter, manifest) ==
    row_filter = ALWAYS_TRUE \/ manifest.summary_match

\* visitors.expression_evaluator(partition_schema, partition_expr, case_sensitive)(data_file.partition)
partition_evaluator(row_filter, data_file) ==
    row_filter = ALWAYS_TRUE \/ data_file.partition_match

\* _InclusiveMetricsEvaluator(schema, row_filter, ...).eval(data_file)
metrics_evaluator(row_filter, data_file) ==
    row_filter = ALWAYS_TRUE \/ data_file.metrics_match

\* _InclusiveMetricsEvaluator(POSITIONAL_DELETE_SCHEMA, EqualTo("file_path", path)).eval(data_file):
\* lower <= path <= upper, a bound the file does not record excluding nothing
file_path_evaluator(path, data_file) ==
    /\ data_file.lower_bound = <<>> \/ data_file.lower_bound[1] <= path
    /\ data_file.upper_bound = <<>> \/ path <= data_file.upper_bound[1]

(***************************************************************************)
(* Table: snapshots.                                                       *)
(***************************************************************************)
\* Table.snapshot_by_id
Table_snapshot_by_id(self, snapshot_id) ==
    LET snapshots == self.metadata.snapshots
        found == {i \in DOMAIN snapshots : snapshots[i].snapshot_id = snapshot_id}
    IN  IF found = {} THEN NoneValue ELSE snapshots[Min(found)]

\* Table.current_snapshot
Table_current_snapshot(self) ==
    IF Truthy(self.metadata.current_snapshot_id)
    THEN Table_snapshot_by_id(self, self.metadata.current_snapshot_id[1])
    ELSE NoneValue

\* Table.snapshot_by_name
Table_snapshot_by_name(self, name) ==
    IF name \in DOMAIN self.metadata.refs
    THEN Table_snapshot_by_id(self, self.metadata.refs[name].snapshot_id)
    ELSE NoneValue

(***************************************************************************)
(* TableScan and DataScan.  "table" is the name of the Table object the    *)
(* scan reads; "attributes" is the scan object's __dict__ beyond the       *)
(* constructor's parameters (functools.cached_property stores the value of *)
(* partition_filters there on first use).                                  *)
(***************************************************************************)
DataScan(table, row_filter, snapshot_id) ==
    [alive |-> TRUE, table |-> table, row_filter |-> row_filter, snapshot_id |-> snapshot_id,
     attributes |-> {}, partition_filters |-> EmptyDict, projected |-> <<>>]

\* Table.scan
Table_scan(table, row_filter, snapshot_id) == DataScan(table, row_filter, snapshot_id)

\* TableScan.snapshot
TableScan_snapshot(self, table) ==
    IF Truthy(self.snapshot_id)
    THEN Table_snapshot_by_id(table, self.snapshot_id[1])
    ELSE Table_current_snapshot(table)

\* Table.schemas(): where two schemas carry the same id the later one stays
Table_schemas(self) ==
    LET schemas == self.metadata.schemas
    IN  [schema_id \in {schemas[i].schema_id : i \in DOMAIN schemas} |->
            schemas[Max({i \in DOMAIN schemas : schemas[i].schema_id = schema_id})]]

\* the schema projection() selects from, "snapshot" being self.snapshot()
SnapshotSchema(table, snapshot) ==
    IF ~IsNone(snapshot) /\ Truthy(snapshot.schema_id)
    THEN IF DictHas(Table_schemas(table), snapshot.schema_id[1])
         THEN Table_schemas(table)[snapshot.schema_id[1]]
         ELSE Error("KeyError")
    ELSE Table_schema(table)

\* TableScan.projection with selected_fields = ("*",), as Table.scan sets it
TableScan_projection(self, table) ==
    SnapshotSchema(table, TableScan_snapshot(self, table))

\* TableScan.update(snapshot_id=...): type(self)(**{**self.__dict__, **overrides})
TableScan_update(self, snapshot_id) ==
    IF self.attributes # {}
    THEN Error("TypeError")
    ELSE DataScan(self.table, self.row_filter, snapshot_id)

\* the rest of use_ref once the ref is looked up
UseRef(self, snapshot) ==
    IF ~IsNone(snapshot)
    THEN TableScan_update(self, Some(snapshot.snapshot_id))
    ELSE Error("ValueError")

\* TableScan.use_ref
TableScan_use_ref(self, table, name) ==
    IF Truthy(self.snapshot_id)
    THEN Error("ValueError")
    ELSE UseRef(self, Table_snapshot_by_name(table, name))

(***************************************************************************)
(* Scan planning.                                                          *)
(***************************************************************************)
\* an _open_manifest that does not consult the metrics evaluator
_open_manifest_partition_only(manifest, row_filter) ==
    SelectSeq(fetch_manifest_entry(manifest, TRUE),
              LAMBDA manifest_entry :
                  partition_evaluator(row_filter, manifest_entry.data_file))

\* _open_manifest
_open_manifest(manifest, row_filter) ==
    SelectSeq(fetch_manifest_entry(manifest, TRUE),
              LAMBDA manifest_entry :
                  /\ partition_evaluator(row_filter, manifest_entry.data_file)
                  /\ metrics_evaluator(row_filter, manifest_entry.data_file))

\* _min_data_file_sequence_number
_min_data_file_sequence_number(manifests) ==
    LET numbers == {OrElse(manifests[i].min_sequence_number, INITIAL_SEQUENCE_NUMBER) :
                        i \in {j \in DOMAIN manifests : manifests[j].content = "DATA"}}
    IN  IF numbers = {} THEN INITIAL_SEQUENCE_NUMBER ELSE Min(numbers)

\* a _check_sequence_number that wants the deletes strictly newer than the oldest data
_check_sequence_number_strictly_newer(min_data_sequence_number, manifest) ==
    \/ manifest.content = "DATA"
    \/ /\ manifest.content = "DELETES"
       /\ OrElse(manifest.sequence_number, INITIAL_SEQUENCE_NUMBER) > min_data_sequence_number

\* DataScan._check_sequence_number
_check_sequence_number(min_data_sequence_number, manifest) ==
    \/ manifest.content = "DATA"
    \/ /\ manifest.content = "DELETES"
       /\ OrElse(manifest.sequence_number, INITIAL_SEQUENCE_NUMBER) >= min_data_sequence_number

\* the key of the SortedList of positional deletes
SequenceKey(entry) == OrElse(entry.data_sequence_number, INITIAL_SEQUENCE_NUMBER)

\* SortedList.bisect_left(value): the index of the first entry whose key is
\* not below the value's key
bisect_left(sorted_list, value) ==
    Cardinality({i \in DOMAIN sorted_list : SequenceKey(sorted_list[i]) < SequenceKey(value)})

\* SortedList.bisect_right(value): the index after the entries whose key is
\* at most the value's key (counted from 0, as Python slices do)
bisect_right(sorted_list, value) ==
    Cardinality({i \in DOMAIN sorted_list : SequenceKey(sorted_list[i]) <= SequenceKey(value)})

\* SortedList.add(value): after the entries with the same key
SortedList_add(sorted_list, value) ==
    InsertAt(sorted_list, bisect_right(sorted_list, value) + 1, value)

\* a _match_deletes_to_datafile that takes every positional delete for a candidate
_match_deletes_to_datafile_every_candidate(data_entry, positional_delete_entries) ==
    {positional_delete_entries[i].data_file :
        i \in {j \in DOMAIN positional_delete_entries :
                file_path_evaluator(data_entry.data_file.file_path,
                                    positional_delete_entries[j].data_file)}}

\* _match_deletes_to_datafile
_match_deletes_to_datafile(data_entry, positional_delete_entries) ==
    LET relevant_entries == SubSeq(positional_delete_entries,
                                   bisect_right(positional_delete_entries, data_entry) + 1,
                                   Len(positional_delete_entries))
    IN  IF Len(relevant_entries) > 0
        THEN {relevant_entries[i].data_file :
                i \in {j \in DOMAIN relevant_entries :
                        file_path_evaluator(data_entry.data_file.file_path,
                                            relevant_entries[j].data_file)}}
        ELSE {}

FileScanTask(data_file, delete_files) ==
    [file |-> data_file, delete_files |-> delete_files, start |-> 0,
     length |-> data_file.file_size_in_bytes]

\* the manifests of the snapshot that the manifest evaluator keeps (plan_files, step 1)
PrunedManifests(manifest_list, row_filter) ==
    SelectSeq(manifest_list, LAMBDA manifest_file : manifest_evaluator(row_filter, manifest_file))

\* the manifests handed to the executor
ManifestsToOpen(manifests, min_data_sequence_number) ==
    SelectSeq(manifests, LAMBDA manifest :
                  _check_sequence_number(min_data_sequence_number, manifest))

(***************************************************************************)
(* The per-spec caches of plan_files.  partition_filters (a                *)
(* cached_property of the scan), manifest_evaluators and                   *)
(* partition_evaluators (locals of plan_files) are KeyDefaultDicts keyed   *)
(* by partition spec id.  "caches" threads them through the two list       *)
(* comprehensions of the calling thread: "projected" logs the spec ids    *)
(* whose partition filter the scan has built so far, "built" every         *)
(* evaluator a factory of this call constructed, "value" is what the last  *)
(* lookup returned, "filtered_by" the manifest evaluator applied to each   *)
(* manifest of the list, "opened_with" the partition evaluator handed to   *)
(* each worker.                                                            *)
(***************************************************************************)
Caches(partition_filters, projected) ==
    [partition_filters |-> partition_filters, projected |-> projected,
     manifest_evaluators |-> EmptyDict,
     partition_evaluators |-> EmptyDict, built |-> <<>>, value |-> NoneValue,
     manifests |-> <<>>, filtered_by |-> <<>>, opened |-> <<>>, opened_with |-> <<>>]

\* an object a factory built: it is identified by its place in the log of its constructions
Evaluator(kind, spec_id, row_filter, serial) ==
    [kind |-> kind, spec_id |-> spec_id, row_filter |-> row_filter, serial |-> serial]

\* a factory of plan_files ran
Constructed(caches, kind, spec_id, row_filter) ==
    [caches EXCEPT !.built = Append(@, <<kind, spec_id>>),
                   !.value = Evaluator(kind, spec_id, row_filter, Len(caches.built) + 1)]

\* KeyDefaultDict.__missing__(key): self[key] = val
KeyDefaultDict_missing(d, key, val) == DictSet(d, key, val)

\* DataScan._build_partition_projection
_build_partition_projection(caches, spec_id, row_filter) ==
    [caches EXCEPT !.projected = Append(@, spec_id),
                   !.value = Evaluator("partition_filter", spec_id, row_filter,
                                       Len(caches.projected) + 1)]

InstalledFilter(caches, spec_id) ==
    [caches EXCEPT !.partition_filters = KeyDefaultDict_missing(@, spec_id, caches.value)]

\* self.partition_filters[spec_id]
partition_filters(caches, spec_id, row_filter) ==
    IF DictHas(caches.partition_filters, spec_id)
    THEN [caches EXCEPT !.value = caches.partition_filters[spec_id]]
    ELSE InstalledFilter(_build_partition_projection(caches, spec_id, row_filter), spec_id)

\* DataScan._build_manifest_evaluator
_build_manifest_evaluator(caches, spec_id, row_filter) ==
    Constructed(partition_filters(caches, spec_id, row_filter),
                "manifest_evaluator", spec_id, row_filter)

InstalledManifestEvaluator(caches, spec_id) ==
    [caches EXCEPT !.manifest_evaluators = KeyDefaultDict_missing(@, spec_id, caches.value)]

\* a manifest_evaluators that runs its factory on every access
manifest_evaluators_rebuilt(caches, spec_id, row_filter) ==
    InstalledManifestEvaluator(_build_manifest_evaluator(caches, spec_id, row_filter), spec_id)

\* manifest_evaluators[spec_id]
manifest_evaluators(caches, spec_id, row_filter) ==
    IF DictHas(caches.manifest_evaluators, spec_id)
    THEN [caches EXCEPT !.value = caches.manifest_evaluators[spec_id]]
    ELSE InstalledManifestEvaluator(_build_manifest_evaluator(caches, spec_id, row_filter),
                                    spec_id)

\* DataScan._build_partition_evaluator
_build_partition_evaluator(caches, spec_id, row_filter) ==
    Constructed(partition_filters(caches, spec_id, row_filter),
                "partition_evaluator", spec_id, row_filter)

InstalledPartitionEvaluator(caches, spec_id) ==
    [caches EXCEPT !.partition_evaluators = KeyDefaultDict_missing(@, spec_id, caches.value)]

\* partition_evaluators[spec_id]
partition_evaluators(caches, spec_id, row_filter) ==
    IF DictHas(caches.partition_evaluators, spec_id)
    THEN [caches EXCEPT !.value = caches.partition_evaluators[spec_id]]
    ELSE InstalledPartitionEvaluator(_build_partition_evaluator(caches, spec_id, row_filter),
                                     spec_id)

\* one manifest of the list in step 1, "found" being the caches after the
\* lookup of its manifest evaluator
FilteredManifest(manifest_file, found) ==
    [found EXCEPT !.filtered_by = Append(@, found.value),
                  !.manifests = IF manifest_evaluator(found.value.row_filter, manifest_file)
                                THEN Append(@, manifest_file) ELSE @]

\* plan_files, step 1: the manifests the manifest evaluator of their spec keeps
RECURSIVE FilterManifests(_, _, _)
FilterManifests(manifest_list, row_filter, caches) ==
    IF manifest_list = <<>> THEN caches
    ELSE FilterManifests(Tail(manifest_list), row_filter,
            FilteredManifest(Head(manifest_list),
                manifest_evaluators(caches, Head(manifest_list).partition_spec_id,
                                    row_filter)))

\* one manifest handed to the executor, with the partition evaluator of its spec
SubmittedManifest(manifest, found) ==
    [found EXCEPT !.opened = Append(@, manifest), !.opened_with = Append(@, found.value)]

\* plan_files, step 2: the argument list of executor.map
RECURSIVE SubmitManifests(_, _, _, _)
SubmitManifests(manifests, min_data_sequence_number, row_filter, caches) ==
    IF manifests = <<>> THEN caches
    ELSE SubmitManifests(Tail(manifests), min_data_sequence_number, row_filter,
            IF _check_sequence_number(min_data_sequence_number, Head(manifests))
            THEN SubmittedManifest(Head(manifests),
                    partition_evaluators(caches, Head(manifests).partition_spec_id,
                                         row_filter))
            ELSE caches)

Submitted(row_filter, filtered) ==
    SubmitManifests(filtered.manifests, _min_data_file_sequence_number(filtered.manifests),
                    row_filter, filtered)

\* plan_files from the manifest list to the executor.map call
PlannedManifests(self, manifest_list) ==
    Submitted(self.row_filter,
              FilterManifests(manifest_list, self.row_filter,
                              Caches(self.partition_filters, self.projected)))

\* the loop of plan_files over the chained entries: "collected" holds
\* data_entries, positional_delete_entries and the exception raised, if any
RECURSIVE CollectEntries(_, _)
CollectEntries(entries, collected) ==
    IF entries = <<>> \/ collected.exc # "none"
    THEN collected
    ELSE LET manifest_entry == Head(entries)
             content == manifest_entry.data_file.content
         IN  CollectEntries(Tail(entries),
                CASE content = "DATA" ->
                        [collected EXCEPT !.data_entries = Append(@, manifest_entry)]
                  [] content = "POSITION_DELETES" ->
                        [collected EXCEPT !.positional_delete_entries =
                                SortedList_add(@, manifest_entry)]
                  [] OTHER -> [collected EXCEPT !.exc = "ValueError"])

\* the list plan_files returns
Tasks(collected) ==
    [i \in DOMAIN collected.data_entries |->
        FileScanTask(collected.data_entries[i].data_file,
                     _match_deletes_to_datafile(collected.data_entries[i],
                                                collected.positional_delete_entries))]

\* plan_files from the chained results of the executor on
PlanResult(collected) ==
    IF collected.exc # "none" THEN Error(collected.exc) ELSE [tasks |-> Tasks(collected)]

\* plan_files, given the entries each opened manifest yielded, chained in
\* the order "order" lists the manifests
ChainedPlan(results, order) ==
    PlanResult(CollectEntries(Flatten([i \in DOMAIN order |-> results[order[i]]]),
                              [data_entries |-> <<>>, positional_delete_entries |-> <<>>,
                               exc |-> "none"]))

(***************************************************************************)
(* FsspecFileIO (pyiceberg/io/fsspec.py).  A location is the text of its   *)
(* scheme, as written, and the rest of the URI; a location without "://"   *)
(* has the empty scheme.  The object store behind the S3 filesystems is    *)
(* the set of the locations that exist.                                    *)
(***************************************************************************)
Location(scheme, rest) == [scheme |-> scheme, rest |-> rest]

\* urlparse(location).scheme: the scheme in lower case
urlparse_scheme(location) ==
    CASE location.scheme = "S3" -> "s3"
      [] location.scheme = "FOO" -> "foo"
      [] OTHER -> location.scheme

\* the key of an object in the store: fsspec strips the protocol, whatever its case
ObjectKey(location) == location.rest

SIGNERS == {"tabular"}
SCHEME_TO_FS == {"s3", "s3a", "s3n"}
NoSigner == "<None>"

\* FsspecFileIO.__init__: "filesystems" are the S3FileSystem objects created so
\* far, "cache" the schemes get_fs (an lru_cache) has an answer for; "creating"
\* is the create call that has passed its existence check and not yet opened,
\* "truncated" the object the last open for writing found existing, if any,
\* "info" what the filesystem reports about each object of the store,
\* "request" the outbound request the signer hook was called with last
FsspecFileIO(properties) ==
    [properties |-> properties, _scheme_to_fs |-> SCHEME_TO_FS,
     cache |-> EmptyDict, filesystems |-> 0,
     objects |-> {}, streams |-> {}, handle |-> NoneValue,
     creating |-> NoneValue, truncated |-> {}, info |-> EmptyDict,
     request |-> NoneValue]

\* an outbound request of the S3 client; its headers are <<name, value>> pairs
AWSRequest(method, url, headers) == [method |-> method, url |-> url, headers |-> headers]

\* what becomes of the POST to {uri}/v1/aws/s3/sign: a response with a status
\* and the headers of its JSON body, or no response at all
SignerResponse(status_code, headers) ==
    [kind |-> "response", status_code |-> status_code, headers |-> headers]
TransportFailure(exc) == [kind |-> exc]

\* requests.post: a transport failure raises the exception of its kind
\* (requests.ConnectionError, requests.Timeout), which is no HTTPError
requests_post(reply) == IF reply.kind = "response" THEN "none" ELSE reply.kind

\* response.raise_for_status(): HTTPError for a 4xx or 5xx status
raise_for_status(response) == IF response.status_code >= 400 THEN "HTTPError" ELSE "none"

\* request.headers.add_header(key, value[0]) for each header of the response
add_headers(request, headers) == [request EXCEPT !.headers = @ \o headers]

\* the try block of tabular_signer: the exception that leaves it
SignerCall(reply) ==
    IF requests_post(reply) # "none" THEN requests_post(reply) ELSE raise_for_status(reply)

\* tabular_signer(properties, request), "reply" being what the POST to the
\* signer comes to: except HTTPError -> SignError, others pass through
tabular_signer(request, reply) ==
    IF SignerCall(reply) = "HTTPError"
    THEN [request |-> request, exc |-> "SignError"]
    ELSE IF SignerCall(reply) # "none"
    THEN [request |-> request, exc |-> SignerCall(reply)]
    ELSE [request |-> add_headers(request, reply.headers), exc |-> "none"]

\* _s3(properties): the filesystem is created unless the signer is unknown
_s3(self) ==
    IF self.properties.signer # NoSigner /\ self.properties.signer \notin SIGNERS
    THEN Raise(self, "ValueError")
    ELSE Return([self EXCEPT !.filesystems = @ + 1])

\* a _get_fs that answers a scheme it does not know with the S3 filesystem
_get_fs_with_fallback(self, scheme) ==
    _s3(self)

\* FsspecFileIO._get_fs
_get_fs(self, scheme) ==
    IF scheme \notin self._scheme_to_fs
    THEN Raise(self, "ValueError")
    ELSE _s3(self)

\* the rest of get_fs on a cache miss: a returned filesystem is remembered
Remembered(scheme, r) ==
    IF r.exc # "none" THEN r
    ELSE [self |-> [r.self EXCEPT !.cache = DictSet(@, scheme, r.self.filesystems)],
          exc |-> "none", fs |-> r.self.filesystems]

\* FsspecFileIO.get_fs = lru_cache(self._get_fs): the filesystem is "fs" of the result
get_fs(self, scheme) ==
    IF DictHas(self.cache, scheme)
    THEN [self |-> self, exc |-> "none", fs |-> self.cache[scheme]]
    ELSE Remembered(scheme, _get_fs(self, scheme))

FsspecInputFile(location, fs) == [kind |-> "FsspecInputFile", location |-> location, fs |-> fs]
FsspecOutputFile(location, fs) == [kind |-> "FsspecOutputFile", location |-> location, fs |-> fs]

\* FsspecFileIO.new_input
new_input(self, location) ==
    LET found == get_fs(self, urlparse_scheme(location))
    IN  IF found.exc # "none" THEN found
        ELSE [found EXCEPT !.self.handle = FsspecInputFile(location, found.fs)]

\* FsspecFileIO.new_output
new_output(self, location) ==
    LET found == get_fs(self, urlparse_scheme(location))
    IN  IF found.exc # "none" THEN found
        ELSE [found EXCEPT !.self.handle = FsspecOutputFile(location, found.fs)]

\* what a filesystem reports about an object of n bytes: a listing entry
\* carries "Size" and "size", a head request "size" only
ListedInfo(n) == [k \in {"Size", "size"} |-> n]
HeadInfo(n) == [k \in {"size"} |-> n]

DictRemove(d, k) == [x \in (DOMAIN d) \ {k} |-> d[x]]

\* dict.get(key): None when the key is missing
dict_get(d, key) == IF DictHas(d, key) THEN Some(d[key]) ELSE NoNumber

\* the size __len__ takes from an object_info
SizeOf(object_info) ==
    IF Truthy(dict_get(object_info, "Size")) THEN dict_get(object_info, "Size")
    ELSE IF Truthy(dict_get(object_info, "size")) THEN dict_get(object_info, "size")
    ELSE NoNumber

\* FsspecInputFile.__len__ and FsspecOutputFile.__len__ (the same body) on the
\* file handed out last; "value" is the length returned
FsspecFile_len(self) ==
    IF ObjectKey(self.handle.location) \notin self.objects
    THEN [self |-> self, exc |-> "FileNotFoundError", value |-> NoneValue]
    ELSE IF SizeOf(self.info[ObjectKey(self.handle.location)]) = NoNumber
    THEN [self |-> self, exc |-> "RuntimeError", value |-> NoneValue]
    ELSE [self |-> self, exc |-> "none",
          value |-> SizeOf(self.info[ObjectKey(self.handle.location)])[1]]

\* fs.rm(location)
rm(self, location) ==
    IF ObjectKey(location) \notin self.objects
    THEN Raise(self, "FileNotFoundError")
    ELSE Return([self EXCEPT !.objects = @ \ {ObjectKey(location)},
                             !.info = DictRemove(@, ObjectKey(location))])

\* FsspecFileIO.delete: the argument is a str, or a file whose location is used
delete(self, location) ==
    LET str_location == IF "kind" \in DOMAIN location THEN location.location ELSE location
        found == get_fs(self, urlparse_scheme(str_location))
    IN  IF found.exc # "none" THEN found
        ELSE rm(found.self, str_location)

\* FsspecInputFile.open on the file new_input returned last
FsspecInputFile_open(self) ==
    IF ObjectKey(self.handle.location) \notin self.objects
    THEN Raise(self, "FileNotFoundError")
    ELSE Return([self EXCEPT !.streams = @ \cup {<<"rb", ObjectKey(self.handle.location)>>}])

\* an exists() that never finds the object
FsspecOutputFile_exists_never(self) == FALSE

\* FsspecOutputFile.exists on the file new_output returned last
FsspecOutputFile_exists(self) == ObjectKey(self.handle.location) \in self.objects

\* FsspecOutputFile.create(overwrite) on the file new_output returned last, up
\* to the call of self._fs.open
FsspecOutputFile_create(self, overwrite) ==
    IF ~overwrite /\ FsspecOutputFile_exists(self)
    THEN Raise(self, "FileExistsError")
    ELSE Return([self EXCEPT !.creating = [overwrite |-> overwrite]])

\* self._fs.open(self.location, "wb"), with which create returns: the object
\* is created, or truncated when it exists
fs_open_wb(self) ==
    [self EXCEPT !.streams = @ \cup {<<"wb", ObjectKey(self.handle.location)>>},
                 !.objects = @ \cup {ObjectKey(self.handle.location)},
                 !.truncated = {ObjectKey(self.handle.location)} \cap self.objects,
                 !.info = DictSet(@, ObjectKey(self.handle.location), HeadInfo(0)),
                 !.creating = NoneValue]

(***************************************************************************)
(* The Avro reader tree (src/iceberg/avro/reader.py) over a BinaryDecoder  *)
(* (iceberg.avro.decoder).  The decoder is its bytes (numbers 0..255),     *)
(* its position in them, the exception it raised and the integer it read   *)
(* last.  read and skip are computed for their effect on the decoder; the  *)
(* values read that steer neither of them are not kept.                    *)
(***************************************************************************)
BinaryDecoder(buffer) == [buffer |-> buffer, pos |-> 0, exc |-> "none", value |-> 0]

\* BinaryDecoder.read(n): n bytes, or ValueError when the input has fewer
decoder_read(d, n) ==
    IF d.exc # "none" THEN d
    ELSE IF n < 0 \/ d.pos + n > Len(d.buffer) THEN [d EXCEPT !.exc = "ValueError"]
    ELSE [d EXCEPT !.pos = @ + n]

\* BinaryDecoder.skip(n): seek(n, SEEK_CUR); a seek backwards is refused
decoder_skip(d, n) ==
    IF d.exc # "none" THEN d
    ELSE IF n < 0 THEN [d EXCEPT !.exc = "OSError"]
    ELSE [d EXCEPT !.pos = @ + n]

\* the integer of a zig-zag code: (n >> 1) ^ -(n & 1)
UnZigZag(n) == IF n % 2 = 0 THEN n \div 2 ELSE -((n + 1) \div 2)

\* the bytes of a variable-length integer: seven bits a byte, the lowest
\* first, the high bit set on all but the last
RECURSIVE read_varint(_, _, _)
read_varint(d, n, weight) ==
    IF d.pos + 1 > Len(d.buffer) THEN [d EXCEPT !.exc = "ValueError"]
    ELSE IF d.buffer[d.pos + 1] >= 128
    THEN read_varint([d EXCEPT !.pos = @ + 1], n + (d.buffer[d.pos + 1] % 128) * weight,
                     weight * 128)
    ELSE [d EXCEPT !.pos = @ + 1, !.value = UnZigZag(n + d.buffer[d.pos + 1] * weight)]

\* BinaryDecoder.read_int: the integer is "value" of the result
read_int(d) == IF d.exc # "none" THEN d ELSE read_varint(d, 0, 1)

\* BinaryDecoder.skip_int
skip_int(d) == [read_int(d) EXCEPT !.value = d.value]

\* the rest of read_bytes and read_utf8 once the length is read
ReadCounted(d) == decoder_read(d, d.value)
\* BinaryDecoder.read_bytes, read_utf8
read_bytes(d) == ReadCounted(read_int(d))

\* the rest of skip_bytes and skip_utf8 once the length is read
SkipCounted(d) == decoder_skip(d, d.value)
\* BinaryDecoder.skip_bytes, skip_utf8
skip_bytes(d) == SkipCounted(read_int(d))

NoneReader == [kind |-> "NoneReader"]
BooleanReader == [kind |-> "BooleanReader"]
IntegerReader == [kind |-> "IntegerReader"]
FloatReader == [kind |-> "FloatReader"]
StringReader == [kind |-> "StringReader"]
FixedReader(length) == [kind |-> "FixedReader", length |-> length]
OptionReader(option) == [kind |-> "OptionReader", option |-> option]
\* fields: <<pos, reader>> pairs, pos being <<>> for a field that is not read
StructReader(fields) == [kind |-> "StructReader", fields |-> fields]
ListReader(element) == [kind |-> "ListReader", element |-> element]
MapReader(key, value) == [kind |-> "MapReader", key |-> key, value |-> value]

\* the readers called for one item of a list or of a map
ItemReaders(reader) ==
    IF reader.kind = "ListReader" THEN <<reader.element>> ELSE <<reader.key, reader.value>>

RECURSIVE Reader_read(_, _)
RECURSIVE Reader_skip(_, _)
RECURSIVE ReadEach(_, _)
RECURSIVE SkipEach(_, _)
RECURSIVE ReadItems(_, _, _)
RECURSIVE SkipItems(_, _, _)
RECURSIVE ReadFields(_, _)
RECURSIVE ReadBlocks(_, _, _)
RECURSIVE SkipBlocks(_, _, _)
RECURSIVE ReadBlocksOn(_, _)
RECURSIVE SkipBlocksOn(_, _)

\* reader.read(decoder) for each reader of the sequence
ReadEach(readers, d) ==
    IF readers = <<>> \/ d.exc # "none" THEN d
    ELSE ReadEach(Tail(readers), Reader_read(Head(readers), d))

\* reader.skip(decoder) for each reader of the sequence
SkipEach(readers, d) ==
    IF readers = <<>> \/ d.exc # "none" THEN d
    ELSE SkipEach(Tail(readers), Reader_skip(Head(readers), d))

\* for _ in range(block_count): read one item
ReadItems(readers, d, block_count) ==
    IF block_count <= 0 \/ d.exc # "none" THEN d
    ELSE ReadItems(readers, ReadEach(readers, d), block_count - 1)

\* for _ in range(block_count): skip one item
SkipItems(readers, d, block_count) ==
    IF block_count <= 0 \/ d.exc # "none" THEN d
    ELSE SkipItems(readers, SkipEach(readers, d), block_count - 1)

\* the next block count is read
NextBlock(d) == read_int(d)

\* the while loop of ListReader.read and of MapReader.read: a negative
\* count is followed by the block's size, which is read and ignored
ReadBlocks(readers, d, block_count) ==
    IF block_count = 0 \/ d.exc # "none" THEN d
    ELSE IF block_count < 0
    THEN ReadBlocks(readers, read_int(d), -block_count)
    ELSE ReadBlocksOn(readers, NextBlock(ReadItems(readers, d, block_count)))

\* the loop goes on with the count just read
ReadBlocksOn(readers, d) == ReadBlocks(readers, d, d.value)

\* the while loop of ListReader.skip and of MapReader.skip: after a block
\* with a negative count is skipped by its size, the loop goes on with the
\* count made positive; the next count is read in the else branch only
SkipBlocks(readers, d, block_count) ==
    IF block_count = 0 \/ d.exc # "none" THEN d
    ELSE IF block_count < 0
    THEN SkipBlocks(readers, SkipCounted(read_int(d)), -block_count)
    ELSE SkipBlocksOn(readers, NextBlock(SkipItems(readers, d, block_count)))

SkipBlocksOn(readers, d) == SkipBlocks(readers, d, d.value)

\* StructReader.read: a field without position is skipped
ReadFields(fields, d) ==
    IF fields = <<>> \/ d.exc # "none" THEN d
    ELSE ReadFields(Tail(fields),
            IF Head(fields)[1] # <<>> THEN Reader_read(Head(fields)[2], d)
            ELSE Reader_skip(Head(fields)[2], d))

\* OptionReader: the branch of the union is read, 0 being null
OptionRead(reader, d) ==
    IF d.exc = "none" /\ d.value > 0 THEN Reader_read(reader.option, d) ELSE d
OptionSkip(reader, d) ==
    IF d.exc = "none" /\ d.value > 0 THEN Reader_skip(reader.option, d) ELSE d

\* Reader.read(decoder)
Reader_read(reader, d) ==
    CASE reader.kind = "NoneReader" -> d
      [] reader.kind = "BooleanReader" -> decoder_read(d, 1)
      [] reader.kind = "IntegerReader" -> read_int(d)
      [] reader.kind = "FloatReader" -> decoder_read(d, 4)
      [] reader.kind = "StringReader" -> read_bytes(d)
      [] reader.kind = "FixedReader" -> decoder_read(d, reader.length)
      [] reader.kind = "OptionReader" -> OptionRead(reader, read_int(d))
      [] reader.kind = "StructReader" -> ReadFields(reader.fields, d)
      [] reader.kind \in {"ListReader", "MapReader"} ->
            ReadBlocksOn(ItemReaders(reader), read_int(d))

\* Reader.skip(decoder)
Reader_skip(reader, d) ==
    CASE reader.kind = "NoneReader" -> d
      [] reader.kind = "BooleanReader" -> decoder_skip(d, 1)
      [] reader.kind = "IntegerReader" -> skip_int(d)
      [] reader.kind = "FloatReader" -> decoder_skip(d, 4)
      [] reader.kind = "StringReader" -> skip_bytes(d)
      [] reader.kind = "FixedReader" -> decoder_skip(d, reader.length)
      [] reader.kind = "OptionReader" -> OptionSkip(reader, read_int(d))
      [] reader.kind = "StructReader" ->
            SkipEach([i \in DOMAIN reader.fields |-> reader.fields[i][2]], d)
      [] reader.kind \in {"ListReader", "MapReader"} ->
            SkipBlocksOn(ItemReaders(reader), read_int(d))

(***************************************************************************)
(* The state machine: objects, inputs and the recording of calls.          *)
(***************************************************************************)
Tables == {"t1", "t2"}
Txns == {"x1"}
Builders == {"b1", "b2"}

Scans == {"s1"}
NoBuilder == [alive |-> FALSE]
NoScan == [alive |-> FALSE]
NoPlan == [pc |-> "idle"]
NoDecoder == [op |-> "none"]
NoTransaction == "none"

Call(op, target, args) == [op |-> op, target |-> target, args |-> args]
Returned(value) == [exc |-> "none", value |-> value]
Raised(exc) == [exc |-> exc, value |-> NoneValue]
Running == [exc |-> "running", value |-> NoneValue]
OutcomeOf(r) == IF r.exc = "none" THEN Returned(NoneValue) ELSE Raised(r.exc)
OutcomeOfValue(v) == IF IsError(v) THEN Raised(v.exc) ELSE Returned(v)

Idle(t) == tables[t].pc = "idle"

\* a _do_commit that answers a rejected commit by sending the request again
Table_do_commit_retrying(t, request) ==
    /\ catalog.calls < MaxCommits
    /\ catalog' = IF _commit_table(catalog, request).reply = "ok"
                  THEN _commit_table(catalog, request)
                  ELSE _commit_table(_commit_table(catalog, request), request)
    /\ IF catalog'.reply = "ok"
       THEN /\ tables' = [tables EXCEPT
                    ![t].metadata = catalog'.metadata,
                    ![t].pc = "assign_location",
                    ![t].response = [metadata |-> catalog'.metadata,
                                     metadata_location |-> catalog'.metadata_location]]
            /\ outcome' = Running
       ELSE /\ tables' = tables
            /\ outcome' = Raised(catalog'.reply)

\* Table._do_commit up to and including "self.metadata = response.metadata";
\* when the catalog raises, the exception leaves _do_commit before any
\* assignment.
Table_do_commit(t, request) ==
    /\ catalog.calls < MaxCommits
    /\ catalog' = _commit_table(catalog, request)
    /\ IF catalog'.reply = "ok"
       THEN /\ tables' = [tables EXCEPT
                    ![t].metadata = catalog'.metadata,
                    ![t].pc = "assign_location",
                    ![t].response = [metadata |-> catalog'.metadata,
                                     metadata_location |-> catalog'.metadata_location]]
            /\ outcome' = Running
       ELSE /\ tables' = tables
            /\ outcome' = Raised(catalog'.reply)

\* Table._do_commit, "self.metadata_location = response.metadata_location"
AssignLocation(t) ==
    /\ tables[t].pc = "assign_location"
    /\ tables' = [tables EXCEPT
            ![t].metadata_location = tables[t].response.metadata_location,
            ![t].pc = "idle",
            ![t].response = NoneValue]
    /\ call' = Call("_do_commit", t, <<"assign_location">>)
    /\ outcome' = Returned(NoneValue)
    /\ UNCHANGED <<catalog, txn, builders, accepted, scans, plan, fileio, decoder>>

HasSchemaChange(updates) == \E i \in DOMAIN updates : updates[i].action = "add-schema"

(***************************************************************************)
(* Transaction actions.                                                    *)
(***************************************************************************)
TxnCall(x, op, args, r) ==
    /\ Idle(txn[x].table)
    /\ txn' = [txn EXCEPT ![x] = r.self]
    /\ call' = Call(op, x, args)
    /\ outcome' = OutcomeOf(r)
    /\ UNCHANGED <<catalog, tables, builders, accepted, scans, plan, fileio, decoder>>

SetProperties(x, updates) ==
    /\ Len(txn[x].updates) < MaxStaged
    /\ TxnCall(x, "set_properties", <<updates>>, set_properties(txn[x], updates))

RemoveProperties(x, removals) ==
    /\ Len(txn[x].updates) < MaxStaged
    /\ TxnCall(x, "remove_properties", <<removals>>, remove_properties(txn[x], removals))

AppendUpdates(x, new_updates) ==
    /\ Len(txn[x].updates) + Len(new_updates) <= MaxStaged
    /\ TxnCall(x, "_append_updates", new_updates, _append_updates(txn[x], new_updates))

AppendRequirements(x, new_requirements) ==
    /\ Len(txn[x].requirements) + Len(new_requirements) <= MaxStaged
    /\ TxnCall(x, "_append_requirements", new_requirements,
               _append_requirements(txn[x], new_requirements))

\* a commit_transaction that goes to the catalog whenever anything is staged
CommitTransaction_anything_staged(x) ==
    LET self == txn[x]
        t == self.table
        request == CommitTableRequest(Tail(tables[t].identifier), self.requirements, self.updates)
    IN  /\ Idle(t)
        /\ call' = Call("commit_transaction", x, <<>>)
        /\ IF Len(self.updates) > 0 \/ Len(self.requirements) > 0
           THEN /\ Table_do_commit(t, request)
                /\ accepted' = IF catalog'.reply = "ok" /\ HasSchemaChange(self.updates)
                               THEN accepted \cup self.staged_by ELSE accepted
           ELSE /\ outcome' = Returned([kind |-> "table", table |-> t])
                /\ UNCHANGED <<catalog, tables, accepted>>
        /\ UNCHANGED <<txn, builders, scans, plan, fileio, decoder>>

\* Transaction.commit_transaction
CommitTransaction(x) ==
    LET self == txn[x]
        t == self.table
        request == CommitTableRequest(Tail(tables[t].identifier), self.requirements, self.updates)
    IN  /\ Idle(t)
        /\ call' = Call("commit_transaction", x, <<>>)
        /\ IF Len(self.updates) > 0
           THEN /\ Table_do_commit(t, request)
                /\ accepted' = IF catalog'.reply = "ok" /\ HasSchemaChange(self.updates)
                               THEN accepted \cup self.staged_by ELSE accepted
           ELSE /\ outcome' = Returned([kind |-> "table", table |-> t])
                /\ UNCHANGED <<catalog, tables, accepted>>
        /\ UNCHANGED <<txn, builders, scans, plan, fileio, decoder>>

\* with table.transaction() as x: Table.transaction() makes the Transaction
\* and __enter__ returns it
Enter(x, t) ==
    /\ txn[x].block.pc \in {"none", "left"}
    /\ Idle(t)
    /\ txn' = [txn EXCEPT ![x] = [Transaction(t) EXCEPT !.block = WithBlock("inside", "none", 0)]]
    /\ call' = Call("__enter__", x, <<>>)
    /\ outcome' = Returned(NoneValue)
    /\ UNCHANGED <<catalog, tables, builders, accepted, scans, plan, fileio, decoder>>

\* what leaves a with statement whose __exit__ returned None: the exception
\* that ended the block, if there was one
Propagated(value) == IF value = "none" THEN Returned(NoneValue) ELSE Raised(value)

\* the block of the with statement has ended, normally (value "none") or by
\* the exception value: Transaction.__exit__(type, value, traceback) calls
\* commit_transaction.  An exception of commit_transaction leaves __exit__
\* and the with statement in place of value; while _do_commit waits at
\* "assign_location" the with statement is "exiting".
Exit(x, value) ==
    LET self == txn[x]
        t == self.table
        request == CommitTableRequest(Tail(tables[t].identifier), self.requirements, self.updates)
    IN  /\ self.block.pc = "inside"
        /\ Idle(t)
        /\ value = "ValueError" => (call.target = x /\ outcome = Raised("ValueError"))
        /\ call' = Call("__exit__", x, <<value>>)
        /\ IF Len(self.updates) > 0
           THEN /\ Table_do_commit(t, request)
                /\ accepted' = IF catalog'.reply = "ok" /\ HasSchemaChange(self.updates)
                               THEN accepted \cup self.staged_by ELSE accepted
                /\ txn' = [txn EXCEPT ![x].block =
                            WithBlock(IF catalog'.reply = "ok" THEN "exiting" ELSE "left",
                                      value, @.commits + 1)]
           ELSE /\ outcome' = Propagated(value)
                /\ txn' = [txn EXCEPT ![x].block = WithBlock("left", value, @.commits + 1)]
                /\ UNCHANGED <<catalog, tables, accepted>>
        /\ UNCHANGED <<builders, scans, plan, fileio, decoder>>

\* commit_transaction has returned to __exit__, which returns None
Leave(x) ==
    /\ txn[x].block.pc = "exiting"
    /\ Idle(txn[x].table)
    /\ txn' = [txn EXCEPT ![x].block.pc = "left"]
    /\ call' = Call("__exit__", x, <<txn[x].block.value>>)
    /\ outcome' = Propagated(txn[x].block.value)
    /\ UNCHANGED <<catalog, tables, builders, accepted, scans, plan, fileio, decoder>>

(***************************************************************************)
(* UpdateSchema actions.                                                   *)
(***************************************************************************)
\* Table.update_schema()
TableUpdateSchema(b, t) ==
    /\ ~builders[b].alive
    /\ Idle(t)
    /\ builders' = [builders EXCEPT ![b] =
            UpdateSchema(Table_schema(tables[t]), t, NoTransaction, FALSE, TRUE)]
    /\ call' = Call("Table.update_schema", t, <<b>>)
    /\ outcome' = Returned(NoneValue)
    /\ UNCHANGED <<catalog, tables, txn, accepted, scans, plan, fileio, decoder>>

\* Transaction.update_schema()
TransactionUpdateSchema(b, x) ==
    /\ ~builders[b].alive
    /\ Idle(txn[x].table)
    /\ builders' = [builders EXCEPT ![b] =
            UpdateSchema(Table_schema(tables[txn[x].table]), txn[x].table, x, FALSE, TRUE)]
    /\ call' = Call("Transaction.update_schema", x, <<b>>)
    /\ outcome' = Returned(NoneValue)
    /\ UNCHANGED <<catalog, tables, txn, accepted, scans, plan, fileio, decoder>>

\* a staging call on builder b: r is what the method returned
Stage(b, op, args, r) ==
    /\ builders[b].alive
    /\ Idle(builders[b].table)
    /\ Len(builders[b].log) < MaxOps
    /\ builders' = [builders EXCEPT ![b] =
            [r.self EXCEPT !.log = Append(@, [op |-> op, args |-> args, exc |-> r.exc])]]
    /\ call' = Call(op, b, args)
    /\ outcome' = OutcomeOf(r)
    /\ UNCHANGED <<catalog, tables, txn, accepted, scans, plan, fileio, decoder>>

AddColumn(b, path, field_type, doc, required) ==
    Stage(b, "add_column", <<path, field_type, [doc |-> doc], [required |-> required]>>,
          add_column(builders[b], path, field_type, doc, required))

DeleteColumn(b, path) ==
    Stage(b, "delete_column", <<path>>, delete_column(builders[b], path))

RenameColumn(b, path_from, path_to) ==
    Stage(b, "rename_column", <<path_from, path_to>>,
          rename_column(builders[b], path_from, path_to))

UpdateColumn(b, path, field_type) ==
    Stage(b, "update_column", <<path, field_type>>, update_column(builders[b], path, field_type))

UpdateColumnDoc(b, path, doc) ==
    Stage(b, "update_column_doc", <<path, doc>>, update_column_doc(builders[b], path, doc))

RequireColumn(b, path) ==
    Stage(b, "require_column", <<path>>, require_column(builders[b], path))

MakeColumnOptional(b, path) ==
    Stage(b, "make_column_optional", <<path>>, make_column_optional(builders[b], path))

MoveFirst(b, path) ==
    Stage(b, "move_first", <<path>>, move_first(builders[b], path))

MoveBefore(b, path, before_path) ==
    Stage(b, "move_before", <<path, before_path>>, move_before(builders[b], path, before_path))

MoveAfter(b, path, after_name) ==
    Stage(b, "move_after", <<path, after_name>>, move_after(builders[b], path, after_name))

AllowIncompatibleChanges(b) ==
    Stage(b, "allow_incompatible_changes", <<>>, allow_incompatible_changes(builders[b]))

\* UpdateSchema._apply, called on its own
Apply(b) ==
    /\ builders[b].alive
    /\ Idle(builders[b].table)
    /\ call' = Call("_apply", b, <<>>)
    /\ outcome' = OutcomeOfValue(_apply(builders[b]))
    /\ UNCHANGED <<catalog, tables, txn, builders, accepted, scans, plan, fileio, decoder>>

\* UpdateSchema.commit after "new_schema = self._apply()"
CommitSchema(b, new_schema) ==
    LET self == builders[b]
        updates == <<AddSchemaUpdate(new_schema, highest_field_id(new_schema)),
                     SetCurrentSchemaUpdate(-1)>>
        requirements == <<AssertCurrentSchemaId(self.schema.schema_id)>>
        x == self.transaction
        staged == _append_updates(txn[x], updates)
        required == _append_requirements(staged.self, requirements)
    IN  IF IsError(new_schema)
        THEN /\ outcome' = Raised(new_schema.exc)
             /\ UNCHANGED <<catalog, tables, txn, accepted>>
        ELSE IF x # NoTransaction
        THEN /\ txn' = [txn EXCEPT ![x] =
                     IF staged.exc # "none" THEN txn[x]
                     ELSE [required.self EXCEPT !.staged_by = @ \cup {b}]]
             /\ outcome' = IF staged.exc # "none" THEN Raised(staged.exc)
                           ELSE OutcomeOf(required)
             /\ UNCHANGED <<catalog, tables, accepted>>
        ELSE /\ Table_do_commit(self.table,
                     CommitTableRequest(Tail(tables[self.table].identifier),
                                        requirements, updates))
             /\ accepted' = IF catalog'.reply = "ok" THEN accepted \cup {b} ELSE accepted
             /\ UNCHANGED txn

\* UpdateSchema.commit
Commit(b) ==
    /\ builders[b].alive
    /\ Idle(builders[b].table)
    /\ call' = Call("commit", b, <<>>)
    /\ UNCHANGED <<builders, scans, plan, fileio, decoder>>
    /\ CommitSchema(b, _apply(builders[b]))

(***************************************************************************)
(* DataScan actions.  plan_files runs in steps: PlanFiles resolves the     *)
(* snapshot, reads its manifest list, prunes it and submits one task per   *)
(* manifest to the executor; OpenManifest is one worker finishing (or      *)
(* failing in) its _open_manifest, in any order; Gather is the calling     *)
(* thread consuming executor.map and building the tasks.                   *)
(***************************************************************************)
\* Table.scan(row_filter, snapshot_id=...)
TableScan(s, t, row_filter, snapshot_id) ==
    /\ ~scans[s].alive
    /\ scans' = [scans EXCEPT ![s] = Table_scan(t, row_filter, snapshot_id)]
    /\ call' = Call("Table.scan", t, <<s, row_filter, snapshot_id>>)
    /\ outcome' = Returned(NoneValue)
    /\ UNCHANGED <<catalog, tables, txn, builders, accepted, plan, fileio, decoder>>

\* scan = scan.use_ref(name), "used" being what use_ref returned or raised
ScanUseRefAs(s, name, used) ==
    /\ scans[s].alive
    /\ plan.pc # "workers"
    /\ scans' = IF IsError(used) THEN scans ELSE [scans EXCEPT ![s] = used]
    /\ call' = Call("use_ref", s, <<name>>)
    /\ outcome' = IF IsError(used) THEN Raised(used.exc) ELSE Returned(NoneValue)
    /\ UNCHANGED <<catalog, tables, txn, builders, accepted, plan, fileio, decoder>>

ScanUseRef(s, name) ==
    ScanUseRefAs(s, name, TableScan_use_ref(scans[s], tables[scans[s].table], name))

\* scan.projection()
Projection(s) ==
    /\ scans[s].alive
    /\ plan.pc # "workers"
    /\ call' = Call("projection", s, <<>>)
    /\ outcome' = OutcomeOfValue(TableScan_projection(scans[s], tables[scans[s].table]))
    /\ UNCHANGED <<catalog, tables, txn, builders, accepted, scans, plan, fileio, decoder>>

Pending == [state |-> "pending", entries |-> <<>>]

\* the workers are started: "caches" is what the two list comprehensions left
Submit(s, snapshot, caches) ==
    /\ plan' = [pc |-> "workers", scan |-> s, snapshot |-> snapshot,
                listed |-> "read", manifests |-> caches.manifests,
                opened |-> caches.opened,
                results |-> [i \in DOMAIN caches.opened |-> Pending],
                completed |-> <<>>,
                built |-> caches.built, filtered_by |-> caches.filtered_by,
                opened_with |-> caches.opened_with]
    /\ outcome' = Running
    /\ scans' = [scans EXCEPT ![s].attributes =
                        IF Snapshot_manifests(snapshot) = <<>> THEN @
                        ELSE @ \cup {"partition_filters"},
                    ![s].partition_filters = caches.partition_filters,
                    ![s].projected = caches.projected]

\* DataScan.plan_files up to the executor.map call, "snapshot" being
\* self.snapshot(); "listed" tells whether the manifest list was read ("no",
\* "read", or "failed" when snapshot.manifests(io) raised)
StartPlan(s, snapshot) ==
    IF IsNone(snapshot)
    THEN /\ plan' = [pc |-> "done", scan |-> s, snapshot |-> snapshot, listed |-> "no",
                     manifests |-> <<>>, opened |-> <<>>, results |-> <<>>,
                     completed |-> <<>>, built |-> <<>>, filtered_by |-> <<>>,
                     opened_with |-> <<>>]
         /\ outcome' = Returned([tasks |-> <<>>])
         /\ scans' = scans
    ELSE \E readable \in BOOLEAN :
            IF ~readable
            THEN /\ plan' = [pc |-> "done", scan |-> s, snapshot |-> snapshot,
                             listed |-> "failed", manifests |-> <<>>, opened |-> <<>>,
                             results |-> <<>>, completed |-> <<>>, built |-> <<>>,
                             filtered_by |-> <<>>, opened_with |-> <<>>]
                 /\ outcome' = Raised("OSError")
                 /\ scans' = scans
            ELSE Submit(s, snapshot, PlannedManifests(scans[s], Snapshot_manifests(snapshot)))

PlanFiles(s) ==
    /\ scans[s].alive
    /\ plan.pc # "workers"
    /\ call' = Call("plan_files", s, <<>>)
    /\ StartPlan(s, TableScan_snapshot(scans[s], tables[scans[s].table]))
    /\ UNCHANGED <<catalog, tables, txn, builders, accepted, fileio, decoder>>

\* one worker of the executor: _open_manifest on the i-th submitted manifest
OpenManifest(i) ==
    /\ plan.pc = "workers"
    /\ i \in DOMAIN plan.results
    /\ plan.results[i].state = "pending"
    /\ \E readable \in BOOLEAN :
        plan' = [plan EXCEPT
            !.results[i] =
                IF readable
                THEN [state |-> "done",
                      entries |-> _open_manifest(plan.opened[i],
                                                 plan.opened_with[i].row_filter)]
                ELSE [state |-> "failed", entries |-> <<>>],
            !.completed = Append(@, i)]
    /\ UNCHANGED <<catalog, tables, txn, builders, call, outcome, accepted, scans, fileio, decoder>>

\* the worker whose result executor.map is waiting for has failed, or all have finished
Gatherable(p) ==
    \E i \in 1..(Len(p.results) + 1) :
        /\ \A j \in 1..(i - 1) : p.results[j].state = "done"
        /\ i \in DOMAIN p.results => p.results[i].state = "failed"

\* a gathering order: the manifests in the order their workers finished
CompletionOrder(p) == p.completed

\* executor.map yields the results in the order the manifests were submitted
SubmissionOrder(p) == [i \in DOMAIN p.results |-> i]

\* a gathering that leaves out the manifests that could not be read
GatheredReadable(p) ==
    ChainedPlan([i \in DOMAIN p.results |-> p.results[i].entries], SubmissionOrder(p))

\* chain(*executor.map(...)) and the rest of plan_files: the exception of a
\* failed worker leaves plan_files, else the loop runs over all entries
Gathered(p) ==
    IF \E i \in DOMAIN p.results : p.results[i].state = "failed"
    THEN Error("OSError")
    ELSE ChainedPlan([i \in DOMAIN p.results |-> p.results[i].entries], SubmissionOrder(p))

Gather(s) ==
    /\ plan.pc = "workers"
    /\ plan.scan = s
    /\ Gatherable(plan)
    /\ plan' = [plan EXCEPT !.pc = "done"]
    /\ outcome' = OutcomeOfValue(Gathered(plan))
    /\ UNCHANGED <<catalog, tables, txn, builders, call, accepted, scans, fileio, decoder>>

(***************************************************************************)
(* FsspecFileIO actions.                                                   *)
(***************************************************************************)
\* a call on the FsspecFileIO (or on the file it returned last): r is what it returned
IOCall(op, args, r) ==
    /\ IsNone(fileio.creating)
    /\ fileio' = r.self
    /\ call' = Call(op, "io", args)
    /\ outcome' = OutcomeOf(r)
    /\ UNCHANGED <<catalog, tables, txn, builders, accepted, scans, plan, decoder>>

NewInput(location) == IOCall("new_input", <<location>>, new_input(fileio, location))

NewOutput(location) == IOCall("new_output", <<location>>, new_output(fileio, location))

Delete(location) == IOCall("delete", <<location>>, delete(fileio, location))

OpenInput ==
    /\ fileio.handle.kind = "FsspecInputFile"
    /\ IOCall("open", <<fileio.handle.location>>, FsspecInputFile_open(fileio))

\* the S3 client is about to send a request: the "before-sign.s3" hook that
\* _s3 registered runs tabular_signer on it
Sign(request, reply) ==
    /\ fileio.properties.signer = "tabular"
    /\ fileio.filesystems > 0
    /\ IsNone(fileio.creating)
    /\ fileio' = [fileio EXCEPT !.request = tabular_signer(request, reply).request]
    /\ call' = Call("tabular_signer", "io", <<request, reply>>)
    /\ outcome' = IF tabular_signer(request, reply).exc = "none"
                  THEN Returned(NoneValue)
                  ELSE Raised(tabular_signer(request, reply).exc)
    /\ UNCHANGED <<catalog, tables, txn, builders, accepted, scans, plan, decoder>>

\* len(file) on the file handed out last
FileLen ==
    /\ ~IsNone(fileio.handle)
    /\ IsNone(fileio.creating)
    /\ call' = Call("len", "io", <<fileio.handle.location>>)
    /\ outcome' = IF FsspecFile_len(fileio).exc = "none"
                  THEN Returned(FsspecFile_len(fileio).value)
                  ELSE Raised(FsspecFile_len(fileio).exc)
    /\ UNCHANGED <<catalog, tables, txn, builders, accepted, scans, plan, fileio, decoder>>

\* create(overwrite) up to its open: r is what the existence check left
CreateOutputAs(overwrite, r) ==
    /\ IsNone(fileio.creating)
    /\ fileio' = r.self
    /\ call' = Call("create", "io", <<fileio.handle.location, overwrite>>)
    /\ outcome' = IF r.exc = "none" THEN Running ELSE Raised(r.exc)
    /\ UNCHANGED <<catalog, tables, txn, builders, accepted, scans, plan, decoder>>

CreateOutput(overwrite) ==
    /\ fileio.handle.kind = "FsspecOutputFile"
    /\ CreateOutputAs(overwrite, FsspecOutputFile_create(fileio, overwrite))

\* the open of a create that passed its check, and the return of create
OpenOutput ==
    /\ ~IsNone(fileio.creating)
    /\ fileio' = fs_open_wb(fileio)
    /\ outcome' = Returned(NoneValue)
    /\ UNCHANGED <<catalog, tables, txn, builders, call, accepted, scans, plan, decoder>>

\* another process writes an object to the store
ConcurrentCreate(location) ==
    /\ ObjectKey(location) \notin fileio.objects
    /\ fileio' = [fileio EXCEPT !.objects = @ \cup {ObjectKey(location)},
                                !.info = DictSet(@, ObjectKey(location), HeadInfo(1))]
    /\ UNCHANGED <<catalog, tables, txn, builders, call, outcome, accepted, scans, plan, decoder>>

(***************************************************************************)
(* BinaryDecoder actions: the reader tree reads, or skips, the value at    *)
(* the start of the decoder's bytes.                                       *)
(***************************************************************************)
\* a call on the reader tree: d is the decoder as the call left it
ReaderCall(op, d) ==
    /\ decoder.op = "open"
    /\ decoder' = [decoder EXCEPT !.op = op, !.d = d]
    /\ call' = Call(op, "reader", <<>>)
    /\ outcome' = IF d.exc = "none" THEN Returned(NoneValue) ELSE Raised(d.exc)
    /\ UNCHANGED <<catalog, tables, txn, builders, accepted, scans, plan, fileio>>

\* reader.read(decoder)
ReaderRead == ReaderCall("read", Reader_read(decoder.reader, decoder.d))

\* reader.skip(decoder)
ReaderSkip == ReaderCall("skip", Reader_skip(decoder.reader, decoder.d))

(***************************************************************************)
(* Spec: the commit path.  Two Table objects loaded from the same catalog  *)
(* table, one Transaction on the first, two UpdateSchema builders created  *)
(* on either table or inside the transaction.                              *)
(***************************************************************************)
TableUUID == "uuid-1"
TableIdentifier == <<"catalog", "db", "tbl">>

FlatSchema ==
    Schema(<<NestedField(1, <<"id">>, IntegerType, TRUE, NoDoc),
             NestedField(2, <<"data">>, StringType, FALSE, NoDoc)>>, INITIAL_SCHEMA_ID)

InitialMetadata(schema) ==
    TableMetadata(TableUUID, <<schema>>, schema.schema_id, highest_field_id(schema), {})

\* the catalog holds one table with this metadata; every Table object was loaded from it
InitFrom(metadata) ==
    /\ catalog = [metadata |-> metadata, metadata_location |-> 0,
                  files |-> <<metadata>>,
                  calls |-> 0, reply |-> "none", request |-> NoneValue]
    /\ tables = [t \in Tables |-> Table(TableIdentifier, metadata, 0)]
    /\ txn = [x \in Txns |-> Transaction("t1")]
    /\ call = Call("init", "none", <<>>)
    /\ outcome = Returned(NoneValue)
    /\ accepted = {}

InitWith(schema) == InitFrom(InitialMetadata(schema))

\* the objects the store holds at the start
InitialObjects == {"bucket/1", "bucket/2"}

\* no scan has been created
InitScans ==
    /\ scans = [s \in Scans |-> NoScan]
    /\ plan = NoPlan
    /\ decoder = NoDecoder

\* FsspecFileIO(properties={"s3.signer": signer}) over the object store
InitFileIO(signer) ==
    fileio = [FsspecFileIO([signer |-> signer]) EXCEPT
                    !.objects = InitialObjects,
                    !.info = [key \in InitialObjects |-> ListedInfo(3)]]

Init ==
    /\ InitWith(FlatSchema)
    /\ builders = [b \in Builders |-> NoBuilder]
    /\ InitScans
    /\ InitFileIO(NoSigner)

\* the column each builder retypes to long
RetypedBy == [b \in Builders |-> IF b = "b1" THEN <<"id">> ELSE <<"data">>]

PropertyUpdates == {{<<"k", "v">>}}
PropertyRemovals == {{"k"}}

Next ==
    \/ \E x \in Txns : \E u \in PropertyUpdates : SetProperties(x, u)
    \/ \E x \in Txns : AppendRequirements(x, <<AssertTableUUID(TableUUID)>>)
    \/ \E x \in Txns : CommitTransaction(x)
    \/ \E b \in Builders : \E t \in Tables : TableUpdateSchema(b, t)
    \/ \E b \in Builders : \E x \in Txns : TransactionUpdateSchema(b, x)
    \/ \E b \in Builders : UpdateColumn(b, StrPath(RetypedBy[b]), LongType)
    \/ \E b \in Builders : Commit(b)
    \/ \E t \in Tables : AssignLocation(t)

Spec == Init /\ [][Next]_vars

(***************************************************************************)
(* SpecTxn: the Transaction on its own, with every staging call.           *)
(***************************************************************************)
OtherUUID == "uuid-2"

UpdateCalls ==
    {<<SetPropertiesUpdate({<<"k", "v">>})>>,
     <<SetPropertiesUpdate({<<"k", "v">>}), SetPropertiesUpdate({<<"k", "v">>})>>,
     <<SetPropertiesUpdate({<<"k", "v">>}), RemovePropertiesUpdate({"k"})>>,
     <<SetCurrentSchemaUpdate(INITIAL_SCHEMA_ID)>>}
RequirementCalls ==
    {<<AssertTableUUID(TableUUID)>>,
     <<AssertTableUUID(OtherUUID)>>,
     <<AssertCurrentSchemaId(INITIAL_SCHEMA_ID)>>,
     <<AssertTableUUID(TableUUID), AssertTableUUID(TableUUID)>>,
     <<AssertTableUUID(TableUUID), AssertCurrentSchemaId(INITIAL_SCHEMA_ID)>>}

NextTxn ==
    \/ \E x \in Txns : \E u \in PropertyUpdates : SetProperties(x, u)
    \/ \E x \in Txns : \E r \in PropertyRemovals : RemoveProperties(x, r)
    \/ \E x \in Txns : \E us \in UpdateCalls : AppendUpdates(x, us)
    \/ \E x \in Txns : \E rs \in RequirementCalls : AppendRequirements(x, rs)
    \/ \E x \in Txns : CommitTransaction(x)
    \/ \E t \in Tables : AssignLocation(t)

SpecTxn == Init /\ [][NextTxn]_vars

(***************************************************************************)
(* SpecSchema: one UpdateSchema builder created by Table.update_schema()   *)
(* on a flat or on a nested schema, every staging method, and _apply.      *)
(***************************************************************************)
NestedSchema ==
    Schema(<<NestedField(1, <<"id">>, IntegerType, TRUE, NoDoc),
             NestedField(2, <<"data">>, StringType, FALSE, "the payload"),
             NestedField(3, <<"location">>,
                         StructType(<<NestedField(4, <<"lat">>, FloatType, FALSE, NoDoc),
                                      NestedField(5, <<"long">>, FloatType, FALSE, NoDoc)>>),
                         FALSE, NoDoc),
             NestedField(6, <<"points">>,
                         ListType(7, StructType(<<NestedField(8, <<"x">>, LongType, FALSE, NoDoc)>>),
                                  TRUE),
                         FALSE, NoDoc),
             NestedField(9, <<"props">>,
                         MapType(10, StringType, 11,
                                 StructType(<<NestedField(12, <<"v">>, IntegerType, FALSE, NoDoc)>>),
                                 TRUE),
                         FALSE, NoDoc)>>, INITIAL_SCHEMA_ID)

\* a table that had a third column, "extra", which an earlier commit deleted:
\* schema 0 is {1: id, 2: data, 3: extra}, the current schema 1 is {1: id, 2: data}
TombstonedMetadata ==
    TableMetadata(TableUUID,
        <<Schema(FlatSchema.fields \o <<NestedField(3, <<"extra">>, LongType, FALSE, NoDoc)>>,
                 INITIAL_SCHEMA_ID),
          Schema(FlatSchema.fields, INITIAL_SCHEMA_ID + 1)>>,
        INITIAL_SCHEMA_ID + 1, 3, {})

SchemaTables == {InitialMetadata(FlatSchema), InitialMetadata(NestedSchema), TombstonedMetadata}

InitSchema ==
    \E metadata \in SchemaTables :
        /\ InitFrom(metadata)
        /\ builders = [b \in Builders |->
                IF b = "b1"
                THEN UpdateSchema(Table_schema(Table(TableIdentifier, metadata, 0)),
                                  "t1", NoTransaction, FALSE, TRUE)
                ELSE NoBuilder]
        /\ InitScans
        /\ InitFileIO(NoSigner)

\* add_column calls: <<path, field_type, required>>
AddCalls ==
    {<<StrPath(<<"extra">>), LongType, FALSE>>,
     <<StrPath(<<"extra">>), LongType, TRUE>>,
     <<StrPath(<<"more">>), StructType(<<NestedField(1, <<"n">>, IntegerType, FALSE, NoDoc)>>), FALSE>>,
     <<StrPath(<<"data">>), LongType, FALSE>>,
     <<StrPath(<<"location", "alt">>), FloatType, FALSE>>,
     <<TuplePath(<<<<"location">>, <<"alt">>>>), FloatType, FALSE>>,
     <<TuplePath(<<<<"points">>, <<"y">>>>), LongType, FALSE>>,
     <<TuplePath(<<<<"props">>, <<"w">>>>), LongType, FALSE>>,
     <<TuplePath(<<<<"data">>, <<"sub">>>>), LongType, FALSE>>}
\* rename_column calls: <<path_from, path_to>>
RenameCalls ==
    {<<StrPath(<<"data">>), StrPath(<<"payload">>)>>,
     <<StrPath(<<"id">>), StrPath(<<"key">>)>>,
     <<TuplePath(<<<<"data">>>>), TuplePath(<<<<"payload">>>>)>>,
     <<StrPath(<<"location", "lat">>), StrPath(<<"location", "latitude">>)>>,
     <<TuplePath(<<<<"location">>, <<"lat">>>>), TuplePath(<<<<"location">>, <<"latitude">>>>)>>,
     <<StrPath(<<"missing">>), StrPath(<<"payload">>)>>}
MovePaths ==
    {StrPath(<<"data">>), StrPath(<<"extra">>), TuplePath(<<<<"location">>, <<"long">>>>)}
\* move_before / move_after calls: <<path, other path>>
MovePairs ==
    {<<StrPath(<<"data">>), StrPath(<<"id">>)>>,
     <<StrPath(<<"id">>), StrPath(<<"data">>)>>,
     <<StrPath(<<"id">>), StrPath(<<"id">>)>>,
     <<StrPath(<<"extra">>), StrPath(<<"id">>)>>,
     <<TuplePath(<<<<"location">>, <<"long">>>>), TuplePath(<<<<"location">>, <<"lat">>>>)>>,
     <<TuplePath(<<<<"location">>, <<"long">>>>), StrPath(<<"id">>)>>,
     <<TuplePath(<<<<"location">>, <<"long">>>>), TuplePath(<<<<"points">>, <<"x">>>>)>>}
DeletePaths ==
    {StrPath(<<"data">>), StrPath(<<"location">>), TuplePath(<<<<"location">>, <<"lat">>>>)}
\* update_column calls: <<path, field_type>>
RetypeCalls ==
    {<<StrPath(<<"id">>), LongType>>,
     <<TuplePath(<<<<"points">>, <<"x">>>>), IntegerType>>,
     <<StrPath(<<"missing">>), LongType>>}
DocPaths == {StrPath(<<"data">>), StrPath(<<"missing">>)}
RequirementPaths == {StrPath(<<"id">>), StrPath(<<"data">>), StrPath(<<"missing">>)}

NextSchema ==
    \/ \E c \in AddCalls : AddColumn("b1", c[1], c[2], NoDoc, c[3])
    \/ \E c \in RenameCalls : RenameColumn("b1", c[1], c[2])
    \/ \E path \in MovePaths : MoveFirst("b1", path)
    \/ \E c \in MovePairs : MoveBefore("b1", c[1], c[2])
    \/ \E c \in MovePairs : MoveAfter("b1", c[1], c[2])
    \/ \E path \in DeletePaths : DeleteColumn("b1", path)
    \/ \E c \in RetypeCalls : UpdateColumn("b1", c[1], c[2])
    \/ \E path \in DocPaths : UpdateColumnDoc("b1", path, "a new doc")
    \/ \E path \in RequirementPaths : RequireColumn("b1", path)
    \/ \E path \in RequirementPaths : MakeColumnOptional("b1", path)
    \/ AllowIncompatibleChanges("b1")
    \/ Apply("b1")

SpecSchema == InitSchema /\ [][NextSchema]_vars

(***************************************************************************)
(* SpecScan: one DataScan on a table with the snapshots 42 (current,       *)
(* branch "main"), 17 (branch "stage") and 0, or on a table without any    *)
(* snapshot.  The manifest list of snapshot 42 is any choice of at most    *)
(* MaxManifests of the manifests below.                                    *)
(***************************************************************************)
RowFilter == "part = 1"

\* data written at sequence number 5: path 1 matches the row filter, path 3 is
\* in another partition, path 2 was removed
DataManifest5 ==
    ManifestFile(1, "DATA", 0, Some(5), Some(5), TRUE,
        <<ManifestEntry("ADDED", Some(5), DataFile("DATA", 1, <<>>, <<>>, TRUE, TRUE)),
          ManifestEntry("EXISTING", Some(5), DataFile("DATA", 3, <<>>, <<>>, FALSE, TRUE)),
          ManifestEntry("DELETED", Some(5), DataFile("DATA", 2, <<>>, <<>>, TRUE, TRUE))>>)
\* data of a format-version-1 writer, without sequence numbers; its
\* partition summary does not match the row filter
DataManifestV1 ==
    ManifestFile(2, "DATA", 0, NoNumber, NoNumber, FALSE,
        <<ManifestEntry("EXISTING", NoNumber, DataFile("DATA", 0, <<>>, <<>>, TRUE, TRUE))>>)
\* data written at sequence number 6: the column bounds of path 2 exclude the row filter
DataManifest6 ==
    ManifestFile(3, "DATA", 1, Some(6), Some(6), TRUE,
        <<ManifestEntry("ADDED", Some(6), DataFile("DATA", 2, <<>>, <<>>, TRUE, FALSE)),
          ManifestEntry("ADDED", Some(6), DataFile("DATA", 4, <<>>, <<>>, TRUE, TRUE))>>)
\* positional deletes: one written at 7 for the paths 0..2, one carried over
\* from 4 for the same paths, one written at 7 for the paths 2..4
DeleteManifest7 ==
    ManifestFile(4, "DELETES", 0, Some(7), Some(4), TRUE,
        <<ManifestEntry("ADDED", Some(7),
                        DataFile("POSITION_DELETES", 10, Some(0), Some(2), TRUE, TRUE)),
          ManifestEntry("EXISTING", Some(4),
                        DataFile("POSITION_DELETES", 11, Some(0), Some(2), TRUE, TRUE)),
          ManifestEntry("ADDED", Some(7),
                        DataFile("POSITION_DELETES", 12, Some(2), Some(4), TRUE, TRUE))>>)
\* positional deletes written at 5, without column bounds
DeleteManifest5 ==
    ManifestFile(5, "DELETES", 0, Some(5), Some(5), TRUE,
        <<ManifestEntry("ADDED", Some(5),
                        DataFile("POSITION_DELETES", 13, <<>>, <<>>, TRUE, TRUE))>>)
\* positional deletes written at 3
DeleteManifest3 ==
    ManifestFile(6, "DELETES", 0, Some(3), Some(3), TRUE,
        <<ManifestEntry("ADDED", Some(3),
                        DataFile("POSITION_DELETES", 14, Some(0), Some(4), TRUE, TRUE))>>)
\* equality deletes written at 8, in a partition the row filter excludes
EqualityManifest8 ==
    ManifestFile(7, "DELETES", 0, Some(8), Some(8), TRUE,
        <<ManifestEntry("ADDED", Some(8),
                        DataFile("EQUALITY_DELETES", 15, <<>>, <<>>, FALSE, TRUE))>>)

ManifestPool ==
    <<DataManifest5, DataManifestV1, DataManifest6, DeleteManifest7, DeleteManifest5,
      DeleteManifest3, EqualityManifest8>>

\* manifest lists of a snapshot
MaxManifests == 3

\* the manifests of the pool with the given indices, in the pool's order
RECURSIVE Listed(_, _)
Listed(indices, from) ==
    IF from > Len(ManifestPool) THEN <<>>
    ELSE (IF from \in indices THEN <<ManifestPool[from]>> ELSE <<>>) \o Listed(indices, from + 1)

ManifestLists ==
    {Listed(indices, 1) : indices \in {S \in SUBSET DOMAIN ManifestPool :
                                            Cardinality(S) <= MaxManifests}}

\* branch main -> 42, branch stage -> 17
Refs == [name \in {"main", "stage"} |-> SnapshotRef(IF name = "main" THEN 42 ELSE 17)]

SnapshotTable(manifest_list) ==
    WithSnapshots(InitialMetadata(FlatSchema), Some(42),
                  <<Snapshot(0, <<DataManifest6>>),
                    Snapshot(17, <<DataManifest5, DeleteManifest7>>),
                    Snapshot(42, manifest_list)>>,
                  Refs)

EmptyTable == WithSnapshots(InitialMetadata(FlatSchema), NoNumber, <<>>, EmptyDict)

ScanTables == {SnapshotTable(manifest_list) : manifest_list \in ManifestLists} \cup {EmptyTable}

InitScan ==
    /\ \E metadata \in ScanTables : InitFrom(metadata)
    /\ builders = [b \in Builders |-> NoBuilder]
    /\ InitScans
    /\ InitFileIO(NoSigner)

\* Table.scan calls: <<row_filter, snapshot_id>>
ScanCalls ==
    {<<ALWAYS_TRUE, NoNumber>>, <<RowFilter, NoNumber>>,
     <<ALWAYS_TRUE, Some(17)>>, <<ALWAYS_TRUE, Some(0)>>, <<ALWAYS_TRUE, Some(99)>>}
RefNames == {"main", "stage", "missing"}

NextScan ==
    \/ \E s \in Scans : \E c \in ScanCalls : TableScan(s, "t1", c[1], c[2])
    \/ \E s \in Scans : \E name \in RefNames : ScanUseRef(s, name)
    \/ \E s \in Scans : PlanFiles(s)
    \/ \E i \in 1..Len(ManifestPool) : OpenManifest(i)
    \/ \E s \in Scans : Gather(s)

SpecScan == InitScan /\ [][NextScan]_vars

(***************************************************************************)
(* SpecDeletes: one DataScan on a table whose current snapshot 42 lists    *)
(* data manifests and delete manifests, one of them with a positional      *)
(* delete file that stores the deleted rows, so that it records bounds of  *)
(* the table's columns, which the row filter's metrics evaluator reads.    *)
(***************************************************************************)
\* positional deletes written at 7 for the paths 0..4, in the row filter's
\* partition; the column bounds of the rows they store exclude the row filter
RowDeleteManifest7 ==
    ManifestFile(8, "DELETES", 0, Some(7), Some(7), TRUE,
        <<ManifestEntry("ADDED", Some(7),
                        DataFile("POSITION_DELETES", 16, Some(0), Some(4), TRUE, FALSE))>>)

DeleteLists ==
    {<<DataManifest5, RowDeleteManifest7>>,
     <<RowDeleteManifest7, DataManifest5>>,
     <<DataManifest6, RowDeleteManifest7>>,
     <<DataManifest5, DeleteManifest7, RowDeleteManifest7>>,
     <<DataManifest5, DataManifest6, RowDeleteManifest7>>}

InitDeletes ==
    /\ \E manifest_list \in DeleteLists : InitFrom(SnapshotTable(manifest_list))
    /\ builders = [b \in Builders |-> NoBuilder]
    /\ InitScans
    /\ InitFileIO(NoSigner)

NextDeletes ==
    \/ \E s \in Scans : \E row_filter \in {ALWAYS_TRUE, RowFilter} :
            TableScan(s, "t1", row_filter, NoNumber)
    \/ \E s \in Scans : PlanFiles(s)
    \/ \E i \in 1..3 : OpenManifest(i)
    \/ \E s \in Scans : Gather(s)

SpecDeletes == InitDeletes /\ [][NextDeletes]_vars

(***************************************************************************)
(* SpecWith: transactions managed by a with statement.  The block stages   *)
(* updates and requirements and ends normally, by the ValueError of a      *)
(* staging call or by a RuntimeError of its own; the catalog rejects a     *)
(* commit that requires another table uuid.                                *)
(***************************************************************************)
BlockEnds == {"none", "ValueError", "RuntimeError"}

NextWith ==
    \/ \E x \in Txns : Enter(x, "t1")
    \/ \E x \in Txns : \E u \in PropertyUpdates : SetProperties(x, u)
    \/ \E x \in Txns : \E r \in PropertyRemovals : RemoveProperties(x, r)
    \/ \E x \in Txns : \E uuid \in {TableUUID, OtherUUID} :
            AppendRequirements(x, <<AssertTableUUID(uuid)>>)
    \/ \E x \in Txns : \E value \in BlockEnds : Exit(x, value)
    \/ \E t \in Tables : AssignLocation(t)
    \/ \E x \in Txns : Leave(x)

SpecWith == Init /\ [][NextWith]_vars

(***************************************************************************)
(* SpecProjection: one DataScan on a table with two schemas, either of     *)
(* them current, whose snapshots 0, 17 and 42 (current) record the id of   *)
(* a schema or none.                                                       *)
(***************************************************************************)
WideSchema ==
    Schema(<<NestedField(1, <<"id">>, IntegerType, TRUE, NoDoc),
             NestedField(2, <<"data">>, StringType, FALSE, NoDoc),
             NestedField(3, <<"part">>, IntegerType, FALSE, NoDoc)>>, 1)

SchemaIds == {NoNumber, Some(0), Some(1)}

ProjectionTable(current_schema_id, schema_ids) ==
    WithSnapshots(TableMetadata(TableUUID, <<FlatSchema, WideSchema>>, current_schema_id,
                                highest_field_id(WideSchema), {}),
                  Some(42),
                  <<SnapshotOfSchema(0, <<>>, schema_ids[1]),
                    SnapshotOfSchema(17, <<>>, schema_ids[2]),
                    SnapshotOfSchema(42, <<>>, schema_ids[3])>>,
                  Refs)

ProjectionTables ==
    {ProjectionTable(current_schema_id, schema_ids) :
        current_schema_id \in {0, 1}, schema_ids \in SchemaIds \X SchemaIds \X SchemaIds}
        \cup {EmptyTable}

InitProjection ==
    /\ \E metadata \in ProjectionTables : InitFrom(metadata)
    /\ builders = [b \in Builders |-> NoBuilder]
    /\ InitScans
    /\ InitFileIO(NoSigner)

NextProjection ==
    \/ \E s \in Scans : \E c \in ScanCalls : TableScan(s, "t1", c[1], c[2])
    \/ \E s \in Scans : \E name \in RefNames : ScanUseRef(s, name)
    \/ \E s \in Scans : Projection(s)

SpecProjection == InitProjection /\ [][NextProjection]_vars

(***************************************************************************)
(* SpecIO: one FsspecFileIO, with or without a request signer, over a      *)
(* store that holds two objects.                                           *)
(***************************************************************************)
Locations ==
    {Location("s3", "bucket/1"), Location("S3", "bucket/2"), Location("s3a", "bucket/1"),
     Location("foo", "bar/baz.txt"), Location("FOO", "bucket/1"), Location("", "/tmp/1")}

Signers == {NoSigner, "tabular", "other"}

InitIO ==
    /\ InitWith(FlatSchema)
    /\ builders = [b \in Builders |-> NoBuilder]
    /\ InitScans
    /\ \E signer \in Signers : InitFileIO(signer)

NextIO ==
    \/ \E location \in Locations : NewInput(location)
    \/ \E location \in Locations : NewOutput(location)
    \/ \E location \in Locations : Delete(location)
    \/ \E location \in Locations : Delete(FsspecInputFile(location, 0))
    \/ OpenInput
    \/ \E overwrite \in BOOLEAN : CreateOutput(overwrite)
    \/ OpenOutput

SpecIO == InitIO /\ [][NextIO]_vars

(***************************************************************************)
(* SpecLen: one FsspecFileIO over a store whose two objects are reported   *)
(* with any of the object infos below; files it creates are empty.         *)
(***************************************************************************)
MaxSize == 2

ObjectInfos ==
    {ListedInfo(n) : n \in 0..MaxSize} \cup {HeadInfo(n) : n \in 0..MaxSize} \cup {EmptyDict}

LenLocations ==
    {Location("s3", "bucket/1"), Location("s3a", "bucket/2"), Location("s3", "bucket/3")}

InitLen ==
    /\ InitWith(FlatSchema)
    /\ builders = [b \in Builders |-> NoBuilder]
    /\ InitScans
    /\ \E info \in [InitialObjects -> ObjectInfos] :
            fileio = [FsspecFileIO([signer |-> NoSigner]) EXCEPT
                            !.objects = InitialObjects, !.info = info]

NextLen ==
    \/ \E location \in LenLocations : NewInput(location)
    \/ \E location \in LenLocations : NewOutput(location)
    \/ FileLen
    \/ CreateOutput(TRUE)
    \/ OpenOutput

SpecLen == InitLen /\ [][NextLen]_vars

(***************************************************************************)
(* SpecSign: one FsspecFileIO whose S3 requests are signed by the          *)
(* "tabular" signer; the signer endpoint answers 200 with headers, answers *)
(* an error status, or cannot be reached.                                  *)
(***************************************************************************)
SignedHeaders ==
    {<<>>, <<<<"Authorization", "sig">>>>,
     <<<<"Authorization", "sig">>, <<"x-amz-date", "now">>>>}

SignerReplies ==
    {SignerResponse(200, headers) : headers \in SignedHeaders}
        \cup {SignerResponse(status_code, <<>>) : status_code \in {403, 500}}
        \cup {TransportFailure("ConnectionError"), TransportFailure("Timeout")}

Requests ==
    {AWSRequest(method, "bucket/1", <<<<"host", "bucket">>>>) :
        method \in {"GET", "PUT", "HEAD", "DELETE"}}

SignLocations == {Location("s3", "bucket/1"), Location("s3a", "bucket/2")}

InitSign ==
    /\ InitWith(FlatSchema)
    /\ builders = [b \in Builders |-> NoBuilder]
    /\ InitScans
    /\ InitFileIO("tabular")

NextSign ==
    \/ \E location \in SignLocations : NewInput(location)
    \/ \E location \in SignLocations : NewOutput(location)
    \/ \E request \in Requests : \E reply \in SignerReplies : Sign(request, reply)

SpecSign == InitSign /\ [][NextSign]_vars

(***************************************************************************)
(* SpecAvro: one reader tree over the Avro encoding of a value of its      *)
(* type, followed or not by further bytes.  Lists and maps are written in  *)
(* every division of their items into blocks, each block with a positive   *)
(* count or with a negative count and its size in bytes.                   *)
(***************************************************************************)
MaxItems == 2

\* the Avro encoding of an integer: zig-zag, then seven bits a byte
ZigZag(n) == IF n >= 0 THEN 2 * n ELSE -2 * n - 1
RECURSIVE Varint(_)
Varint(z) == IF z < 128 THEN <<z>> ELSE <<128 + (z % 128)>> \o Varint(z \div 128)
encode_int(n) == Varint(ZigZag(n))
encode_bytes(bytes) == encode_int(Len(bytes)) \o bytes

\* one block of items (each item its bytes)
EncodeBlock(items, negative) ==
    IF negative
    THEN encode_int(-Len(items)) \o encode_int(Len(Flatten(items))) \o Flatten(items)
    ELSE encode_int(Len(items)) \o Flatten(items)

\* the items in the blocks "blocking" lists as <<count, negative>>, and the end marker
RECURSIVE EncodeBlocks(_, _)
EncodeBlocks(items, blocking) ==
    IF blocking = <<>> THEN encode_int(0)
    ELSE EncodeBlock(SubSeq(items, 1, blocking[1][1]), blocking[1][2])
            \o EncodeBlocks(SubSeq(items, blocking[1][1] + 1, Len(items)), Tail(blocking))

\* the divisions of n items into blocks
RECURSIVE Blockings(_)
Blockings(n) ==
    IF n = 0 THEN {<<>>}
    ELSE UNION {{<<<<k, negative>>>> \o rest : rest \in Blockings(n - k), negative \in BOOLEAN} :
                    k \in 1..n}

\* the encodings of the lists of at most "max" of the encoded elements
EncodedLists(elements, max) ==
    UNION {{EncodeBlocks(items, blocking) :
                items \in [1..k -> elements], blocking \in Blockings(k)} : k \in 0..max}

IntCodes == {encode_int(1), encode_int(-65)}
StringCodes == {encode_bytes(<<>>), encode_bytes(<<97, 98>>)}
OptionCodes == {encode_int(0)} \cup {encode_int(1) \o code : code \in StringCodes}
PairCodes == {encode_bytes(<<107>>) \o encode_int(1), encode_bytes(<<107, 107>>) \o encode_int(64)}

\* a struct of a list, a boolean that is not read and a fixed of two bytes
ListStruct ==
    StructReader(<<<<Some(0), ListReader(IntegerReader)>>, <<NoNumber, BooleanReader>>,
                   <<Some(1), FixedReader(2)>>>>)

\* <<reader, encoded value>>
AvroCases ==
    {<<IntegerReader, encode_int(n)>> : n \in {0, -1, 64}}
        \cup {<<StringReader, code>> : code \in StringCodes}
        \cup {<<OptionReader(StringReader), code>> : code \in OptionCodes}
        \cup {<<FloatReader, <<0, 0, 128, 63>>>>, <<NoneReader, <<>>>>}
        \cup {<<ListReader(IntegerReader), code>> : code \in EncodedLists(IntCodes, MaxItems)}
        \cup {<<ListReader(OptionReader(StringReader)), code>> :
                code \in EncodedLists(OptionCodes, 1)}
        \cup {<<MapReader(StringReader, IntegerReader), code>> :
                code \in EncodedLists(PairCodes, MaxItems)}
        \cup {<<ListReader(ListReader(IntegerReader)), code>> :
                code \in EncodedLists(EncodedLists(IntCodes, 1), 1)}
        \cup {<<ListStruct, code \o <<1, 7, 7>>>> : code \in EncodedLists(IntCodes, 1)}

\* the bytes that follow the value in the decoder's input
Trailers == {<<>>, <<2, 2, 0>>}

InitAvro ==
    /\ InitWith(FlatSchema)
    /\ builders = [b \in Builders |-> NoBuilder]
    /\ scans = [s \in Scans |-> NoScan]
    /\ plan = NoPlan
    /\ InitFileIO(NoSigner)
    /\ \E case \in AvroCases : \E trailer \in Trailers :
            decoder = [op |-> "open", reader |-> case[1], encoded |-> Len(case[2]),
                       d |-> BinaryDecoder(case[2] \o trailer)]

NextAvro ==
    \/ ReaderRead
    \/ ReaderSkip

SpecAvro == InitAvro /\ [][NextAvro]_vars

(***************************************************************************)
(* SpecCreate: one FsspecFileIO writing files while another process        *)
(* creates objects in the same store.                                      *)
(***************************************************************************)
CreateLocations ==
    {Location("s3", "bucket/1"), Location("s3", "bucket/3"), Location("s3a", "bucket/4")}

InitCreate ==
    /\ InitWith(FlatSchema)
    /\ builders = [b \in Builders |-> NoBuilder]
    /\ InitScans
    /\ InitFileIO(NoSigner)

NextCreate ==
    \/ \E location \in CreateLocations : NewOutput(location)
    \/ \E overwrite \in BOOLEAN : CreateOutput(overwrite)
    \/ OpenOutput
    \/ \E location \in CreateLocations : Delete(location)
    \/ \E location \in CreateLocations : ConcurrentCreate(location)

SpecCreate == InitCreate /\ [][NextCreate]_vars

(***************************************************************************)
(* Properties of the Transaction (SpecTxn).                                *)
(***************************************************************************)
\* two entries of a staged list that are of the same kind
SameAction(updates, i, j) == updates[i].action = updates[j].action
SameType(requirements, i, j) == requirements[i].type = requirements[j].type

\* C1: whatever calls staged them, the updates staged on a transaction never
\* hold two updates of the same kind.
C1_UpdateKindsUnique ==
    \A x \in Txns : \A i, j \in DOMAIN txn[x].updates :
        SameAction(txn[x].updates, i, j) => i = j

\* a requirement of the call is of a kind already staged, or of a kind the call repeats
KindConflict(staged, new) ==
    \/ \E n \in DOMAIN new : \E i \in DOMAIN staged : new[n].type = staged[i].type
    \/ \E n, m \in DOMAIN new : n # m /\ new[n].type = new[m].type

\* C2: an _append_requirements call raises ValueError exactly when one of its
\* requirements is of a kind already staged or repeated in the call; otherwise
\* its requirements are appended; the staged requirements never hold two of
\* one kind.
C2_RequirementsRaiseIffKindStaged ==
    [][\A x \in Txns :
        (call'.op = "_append_requirements" /\ call'.target = x) =>
            /\ (outcome'.exc = "ValueError") <=> KindConflict(txn[x].requirements, call'.args)
            /\ ~KindConflict(txn[x].requirements, call'.args)
                  => txn'[x].requirements = txn[x].requirements \o call'.args
            /\ \A i, j \in DOMAIN txn'[x].requirements :
                  SameType(txn'[x].requirements, i, j) => i = j]_vars

\* C3: commit_transaction on a transaction without staged updates leaves the
\* catalog uncalled and the Table objects as they were, and returns the
\* transaction's table.
C3_NoUpdatesNoCatalogCall ==
    [][\A x \in Txns :
        (call'.op = "commit_transaction" /\ call'.target = x /\ Len(txn[x].updates) = 0) =>
            /\ catalog' = catalog
            /\ tables' = tables
            /\ outcome' = Returned([kind |-> "table", table |-> txn[x].table])]_vars

\* commit_transaction has just returned on a transaction that holds
\* requirements but no updates
C3_Witness ==
    /\ call.op = "commit_transaction"
    /\ Len(txn[call.target].updates) = 0
    /\ Len(txn[call.target].requirements) > 0
    /\ outcome = Returned([kind |-> "table", table |-> txn[call.target].table])
    /\ catalog.calls = 0

(***************************************************************************)
(* Properties of the commit path (Spec).                                   *)
(***************************************************************************)
\* C4: of two builders created from the same schema, the catalog accepts the
\* change of at most one.
C4_OneAcceptedPerBaseSchema ==
    \A b1, b2 \in accepted :
        b1 # b2 => builders[b1].schema # builders[b2].schema

\* what commit() is to produce from the applied schema
CommitUpdates(new_schema) ==
    <<AddSchemaUpdate(new_schema, highest_field_id(new_schema)), SetCurrentSchemaUpdate(-1)>>
CommitRequirements(self) == <<AssertCurrentSchemaId(self.schema.schema_id)>>

\* the step is a commit() of builder b that hands over exactly the updates and
\* the requirement of the applied schema
CommitHandsOver(b, new_schema) ==
    LET self == builders[b]
        x == self.transaction
    IN  IF x # NoTransaction
        THEN /\ txn'[x].updates = txn[x].updates \o CommitUpdates(new_schema)
             /\ txn'[x].requirements = txn[x].requirements \o CommitRequirements(self)
             /\ catalog' = catalog
        ELSE /\ catalog'.calls = catalog.calls + 1
             /\ catalog'.request =
                    CommitTableRequest(Tail(tables[self.table].identifier),
                                       CommitRequirements(self), CommitUpdates(new_schema))

\* the commit of builder b is free to stage: the changes apply, and in a
\* transaction no staged update or requirement is of a kind commit() adds
CommitCanStage(b, new_schema) ==
    LET self == builders[b]
        x == self.transaction
    IN  /\ ~IsError(new_schema)
        /\ x # NoTransaction =>
              /\ \A i \in DOMAIN txn[x].updates :
                    txn[x].updates[i].action \notin {"add-schema", "set-current-schema"}
              /\ \A i \in DOMAIN txn[x].requirements :
                    txn[x].requirements[i].type # "assert-current-schema-id"

\* C5: commit() hands over <<AddSchemaUpdate(applied schema, its highest field
\* id), SetCurrentSchemaUpdate(-1)>> and <<AssertCurrentSchemaId(base schema
\* id)>>: appended to the transaction's lists without a catalog call, or else
\* in exactly one catalog commit.
C5_CommitPayload ==
    [][\A b \in Builders :
        (call'.op = "commit" /\ call'.target = b
            /\ CommitCanStage(b, _apply(builders[b])))
        => CommitHandsOver(b, _apply(builders[b]))]_vars

\* C6: a commit the catalog rejects reaches the catalog once, raises the
\* catalog's CommitFailedException to the caller and leaves every Table
\* object's metadata and metadata_location as they were.
C6_RejectionSurfacesOnce ==
    [][(catalog'.calls # catalog.calls /\ catalog'.reply = "CommitFailedException") =>
            /\ catalog'.calls = catalog.calls + 1
            /\ tables' = tables
            /\ outcome' = Raised("CommitFailedException")]_vars

\* a commit has just been rejected by the catalog, after an earlier one was accepted
C6_Witness ==
    /\ call.op \in {"commit", "commit_transaction"}
    /\ outcome = Raised("CommitFailedException")
    /\ catalog.reply = "CommitFailedException"
    /\ catalog.calls = 2
    /\ catalog.metadata_location = 1

\* C7: a Table object's metadata is at all times the content of the metadata
\* file its metadata_location names: no reader sees new metadata next to the
\* old location.
C7_MetadataAndLocationAgree ==
    \A t \in Tables :
        catalog.files[tables[t].metadata_location + 1] = tables[t].metadata

(***************************************************************************)
(* Properties of the schema builder (SpecSchema).                          *)
(***************************************************************************)
\* the staging calls made on b all returned, and all were among ops
StagedOnly(b, ops) ==
    /\ Len(builders[b].log) > 0
    /\ \A i \in DOMAIN builders[b].log :
          builders[b].log[i].op \in ops /\ builders[b].log[i].exc = "none"

\* per field id: the kind of its type and the field that holds it
FieldIdentities(schema) ==
    {<<e.field.field_id, e.field.field_type.kind, e.parent>> : e \in IndexByName(schema)}

\* C8: with only renames and moves staged, _apply returns a schema that has
\* the base schema's field ids, each of the same type and under the same
\* parent.
C8_RenamesAndMovesKeepIds ==
    \A b \in Builders :
        (call.op = "_apply" /\ call.target = b
            /\ StagedOnly(b, {"rename_column", "move_first", "move_before", "move_after"}))
        => /\ outcome.exc = "none"
           /\ FieldIdentities(outcome.value) = FieldIdentities(builders[b].schema)

\* the field stays what it was, under another name
Renamed(old, new) ==
    /\ ~IsError(new)
    /\ new.field_id = old.field_id
    /\ new.field_type = old.field_type
    /\ new.doc = old.doc
    /\ new.required = old.required

\* C9: after one rename_column(from, to), _apply returns a schema in which
\* `to` resolves to the field `from` named (same id, type, doc, required) and
\* `from` resolves no more.
C9_RenameTakesEffect ==
    \A b \in Builders :
        (call.op = "_apply" /\ call.target = b /\ Len(builders[b].log) = 1
            /\ StagedOnly(b, {"rename_column"}))
        => /\ outcome.exc = "none"
           /\ Renamed(find_field(builders[b].schema,
                                 Join(AsTuple(builders[b].log[1].args[1])), TRUE),
                      find_field(outcome.value,
                                 Join(AsTuple(builders[b].log[1].args[2])), TRUE))
           /\ IsError(find_field(outcome.value,
                                 Join(AsTuple(builders[b].log[1].args[1])), TRUE))

\* the children of the root (parent_id = TABLE_ROOT_ID) or of the struct that
\* the field parent_id holds
ChildrenOf(schema, parent_id) ==
    IF parent_id = TABLE_ROOT_ID THEN schema.fields
    ELSE (CHOOSE e \in IndexByName(schema) : e.field.field_id = parent_id).field.field_type.fields

EndsWith(s, tail) ==
    /\ Len(tail) <= Len(s)
    /\ SubSeq(s, Len(s) - Len(tail) + 1, Len(s)) = tail

\* C10: with only add_column calls staged, _apply returns a schema in which
\* each parent's children end with the columns added to it, in the order of
\* the calls.
C10_AddedColumnsAppended ==
    \A b \in Builders :
        (call.op = "_apply" /\ call.target = b /\ StagedOnly(b, {"add_column"}))
        => /\ outcome.exc = "none"
           /\ \A parent_id \in DOMAIN builders[b].adds :
                 EndsWith(ChildrenOf(outcome.value, parent_id), builders[b].adds[parent_id])

\* the number of ids a type holds, each counted as often as it occurs
RECURSIVE IdCount(_), SumIdCounts(_)
SumIdCounts(fields) ==
    IF fields = <<>> THEN 0
    ELSE 1 + IdCount(Head(fields).field_type) + SumIdCounts(Tail(fields))
IdCount(t) ==
    IF t.kind = "struct" THEN SumIdCounts(t.fields)
    ELSE IF t.kind = "list" THEN 1 + IdCount(t.element_type)
    ELSE IF t.kind = "map" THEN 2 + IdCount(t.key_type) + IdCount(t.value_type)
    ELSE 0

\* the ids held by the columns staged in adds, and how many there are
StagedIds(self) ==
    UNION {TypeIds(StructType(self.adds[parent_id])) : parent_id \in DOMAIN self.adds}
RECURSIVE StagedIdCount(_, _)
StagedIdCount(self, parents) ==
    IF parents = {} THEN 0
    ELSE LET parent_id == CHOOSE x \in parents : TRUE
         IN  IdCount(StructType(self.adds[parent_id])) + StagedIdCount(self, parents \ {parent_id})

\* the staging calls made on b were all calls of op, and one of them returned
StagedSome(b, op) ==
    /\ \A i \in DOMAIN builders[b].log : builders[b].log[i].op = op
    /\ \E i \in DOMAIN builders[b].log : builders[b].log[i].exc = "none"

\* C11: after add_column calls only, the applied schema has pairwise distinct
\* field ids, every id of an added column (nested ids included) is above the
\* base schema's highest field id, and the counter has moved by exactly the
\* ids that were staged (a rejected add_column consumes none).
C11_AddedIdsFresh ==
    \A b \in Builders :
        (call.op = "_apply" /\ call.target = b /\ StagedSome(b, "add_column"))
        => /\ outcome.exc = "none"
           /\ Cardinality(TypeIds(as_struct(outcome.value))) = IdCount(as_struct(outcome.value))
           /\ StagedIds(builders[b]) \subseteq TypeIds(as_struct(outcome.value))
           /\ \A id \in StagedIds(builders[b]) : id > highest_field_id(builders[b].schema)
           /\ builders[b].last_column_id =
                 highest_field_id(builders[b].schema) + 1
                 + StagedIdCount(builders[b], DOMAIN builders[b].adds)

\* every field id the table has ever held, in any of its schemas
EverAssigned ==
    UNION {TypeIds(as_struct(catalog.metadata.schemas[i])) : i \in DOMAIN catalog.metadata.schemas}

\* C12: no column added by a builder gets a field id that the table has ever
\* assigned, the ids of deleted columns included.
C12_DeletedIdsStayTaken ==
    \A b \in Builders :
        builders[b].alive => StagedIds(builders[b]) \cap EverAssigned = {}

\* int to long, float to double, decimal to a wider decimal of the same scale
\* (of these the model's types hold int to long)
SafePromotion(from, to) == from = IntegerType /\ to = LongType

\* the call names a column of the schema that is not staged for deletion
NamesLiveColumn(self, path) ==
    /\ ~IsError(find_field(self.schema, Join(AsTuple(path)), TRUE))
    /\ find_field(self.schema, Join(AsTuple(path)), TRUE).field_id \notin self.deletes

RetypeAllowed(self, field, field_type) ==
    \/ field.field_type = field_type
    \/ SafePromotion(field.field_type, field_type)
    \/ self.allow_incompatible_changes

\* C13: update_column(p, T) returns exactly when T is p's type, a safe
\* promotion of it, or allow_incompatible_changes is set; otherwise it raises
\* and stages nothing.
C13_RetypeNeedsPromotion ==
    [][\A b \in Builders :
        (call'.op = "update_column" /\ call'.target = b
            /\ NamesLiveColumn(builders[b], call'.args[1]))
        => IF RetypeAllowed(builders[b],
                            find_field(builders[b].schema, Join(AsTuple(call'.args[1])), TRUE),
                            call'.args[2])
           THEN outcome'.exc = "none"
           ELSE outcome'.exc # "none" /\ builders'[b].updates = builders[b].updates]_vars

\* what require_column is to do with the field the call names
RequireOutcome(b, field) ==
    IF field.required
    THEN outcome'.exc = "none" /\ builders'[b].updates = builders[b].updates
    ELSE IF builders[b].allow_incompatible_changes
    THEN /\ outcome'.exc = "none"
         /\ DictHas(builders'[b].updates, field.field_id)
         /\ builders'[b].updates[field.field_id].required
    ELSE outcome'.exc # "none" /\ builders'[b].updates = builders[b].updates

\* C14: require_column on an optional column raises and stages nothing unless
\* allow_incompatible_changes is set, in which case it stages required = true;
\* on a required column it changes nothing.
C14_RequireNeedsFlag ==
    [][\A b \in Builders :
        (call'.op = "require_column" /\ call'.target = b
            /\ NamesLiveColumn(builders[b], call'.args[1]))
        => RequireOutcome(b, find_field(builders[b].schema,
                                        Join(AsTuple(call'.args[1])), TRUE))]_vars

\* the last staging call on b was op, and every call before it set the flag
LastAfterFlags(b, op) ==
    /\ Len(builders[b].log) >= 1
    /\ builders[b].log[Len(builders[b].log)].op = op
    /\ \A i \in 1..(Len(builders[b].log) - 1) :
          builders[b].log[i].op = "allow_incompatible_changes"

MadeOptional(b, name, field) ==
    /\ builders[b].log[Len(builders[b].log)].exc = "none"
    /\ outcome.exc = "none"
    /\ find_field(outcome.value, name, TRUE) = [field EXCEPT !.required = FALSE]

\* C15: make_column_optional on a required column returns, with or without
\* allow_incompatible_changes, and the applied schema holds the column as
\* optional with its id, name, type and doc.
C15_MakeOptionalTakesEffect ==
    \A b \in Builders :
        (call.op = "_apply" /\ call.target = b /\ LastAfterFlags(b, "make_column_optional")
            /\ NamesLiveColumn(builders[b], builders[b].log[Len(builders[b].log)].args[1])
            /\ find_field(builders[b].schema,
                          Join(AsTuple(builders[b].log[Len(builders[b].log)].args[1])),
                          TRUE).required)
        => MadeOptional(b, Join(AsTuple(builders[b].log[Len(builders[b].log)].args[1])),
                        find_field(builders[b].schema,
                                   Join(AsTuple(builders[b].log[Len(builders[b].log)].args[1])),
                                   TRUE))

\* the call's name is that of a column of the schema or of a column staged before
NameTaken(self, path) ==
    \/ ~IsError(find_field(self.schema, Join(AsTuple(path)), self.case_sensitive))
    \/ DictHas(self.added_name_to_id, Join(AsTuple(path)))

\* C16: add_column raises, and stages nothing, whenever its name is already
\* that of a column of the schema or of a column staged by an earlier
\* add_column.
C16_DuplicateAddRejected ==
    [][\A b \in Builders :
        (call'.op = "add_column" /\ call'.target = b /\ NameTaken(builders[b], call'.args[1]))
        => /\ outcome'.exc # "none"
           /\ builders'[b].adds = builders[b].adds]_vars

IsPrefix(p, n) == Len(p) <= Len(n) /\ SubSeq(n, 1, Len(p)) = p

\* the fields of a schema by full name: id, kind of type, doc and required flag
FieldsByName(schema) ==
    {<<e.name, e.field.field_id, e.field.field_type.kind, e.field.doc, e.field.required>> :
        e \in IndexByName(schema)}

\* the entries of FieldsByName that are neither the column named nor below it
Without(fields, name) == {f \in fields : ~IsPrefix(name, f[1])}

\* the full name under which the schema's index holds the column a path names
FullNameOf(schema, path) ==
    (CHOOSE e \in IndexByName(schema) :
        e.field = find_field(schema, Join(AsTuple(path)), TRUE)
        /\ (e.name = Join(AsTuple(path)) \/ e.short = Join(AsTuple(path)))).name

\* C17: after one delete_column(p), _apply returns the base schema without p
\* and the fields below p, every other field as it was.
C17_DeleteRemovesOnlyThatColumn ==
    \A b \in Builders :
        (call.op = "_apply" /\ call.target = b /\ Len(builders[b].log) = 1
            /\ StagedOnly(b, {"delete_column"}))
        => /\ outcome.exc = "none"
           /\ FieldsByName(outcome.value) =
                 Without(FieldsByName(builders[b].schema),
                         FullNameOf(builders[b].schema, builders[b].log[1].args[1]))

\* the id of the field that holds the column a path names
\* (TABLE_ROOT_ID for a top-level column)
ParentOf(schema, path) ==
    (CHOOSE e \in IndexByName(schema) :
        e.field = find_field(schema, Join(AsTuple(path)), TRUE)
        /\ (e.name = Join(AsTuple(path)) \/ e.short = Join(AsTuple(path)))).parent

InSchema(schema, path) == ~IsError(find_field(schema, Join(AsTuple(path)), TRUE))

\* C18: move_before(p, q) and move_after(p, q) raise, and stage no move, when
\* p and q are columns of different parents.
C18_MoveAcrossParentsRejected ==
    [][\A b \in Builders :
        (call'.op \in {"move_before", "move_after"} /\ call'.target = b
            /\ InSchema(builders[b].schema, call'.args[1])
            /\ InSchema(builders[b].schema, call'.args[2])
            /\ ParentOf(builders[b].schema, call'.args[1])
               # ParentOf(builders[b].schema, call'.args[2]))
        => /\ outcome'.exc # "none"
           /\ builders'[b].moves = builders[b].moves]_vars

IdsOf(fields) == [i \in DOMAIN fields |-> fields[i].field_id]
PositionOf(ids, id) == CHOOSE i \in DOMAIN ids : ids[i] = id

\* new is old with p moved as op says (q is the other column of Before and
\* After), everything else in its old order
MovedAs(old, new, op, p, q) ==
    /\ Len(new) = Len(old)
    /\ SelectSeq(new, LAMBDA id : id # p) = SelectSeq(old, LAMBDA id : id # p)
    /\ \E i \in DOMAIN new : new[i] = p
    /\ op = "move_first" => new[1] = p
    /\ op = "move_before" => PositionOf(new, p) + 1 = PositionOf(new, q)
    /\ op = "move_after" => PositionOf(new, p) = PositionOf(new, q) + 1

\* the one staging call on b was a move of a column of the schema, for
\* move_before and move_after relative to a column of the same parent
OneMoveStaged(b) ==
    /\ Len(builders[b].log) = 1
    /\ StagedOnly(b, {"move_first", "move_before", "move_after"})
    /\ \A i \in DOMAIN builders[b].log[1].args :
          /\ InSchema(builders[b].schema, builders[b].log[1].args[i])
          /\ ParentOf(builders[b].schema, builders[b].log[1].args[i])
             = ParentOf(builders[b].schema, builders[b].log[1].args[1])

MoveApplied(b, parent_id, move) ==
    /\ outcome.exc = "none"
    /\ MovedAs(IdsOf(ChildrenOf(builders[b].schema, parent_id)),
               IdsOf(ChildrenOf(outcome.value, parent_id)),
               move.op,
               find_field(builders[b].schema, Join(AsTuple(move.args[1])), TRUE).field_id,
               find_field(builders[b].schema,
                          Join(AsTuple(move.args[Len(move.args)])), TRUE).field_id)

\* C19: after one move_first(p), move_before(p, q) or move_after(p, q), _apply
\* returns a schema in which the children of p's parent are the old children
\* with p first, right before q or right after q, the others in their old
\* order.
C19_MoveTakesEffect ==
    \A b \in Builders :
        (call.op = "_apply" /\ call.target = b /\ OneMoveStaged(b))
        => MoveApplied(b, ParentOf(builders[b].schema, builders[b].log[1].args[1]),
                       builders[b].log[1])

StagingOps ==
    {"add_column", "delete_column", "rename_column", "update_column", "update_column_doc",
     "require_column", "make_column_optional", "move_first", "move_before", "move_after"}

StagedState(self) ==
    <<self.adds, self.updates, self.deletes, self.moves, self.added_name_to_id,
      self.identifier_field_names, self.last_column_id>>

\* C20: a staging call that raises leaves adds, updates, deletes, moves, the
\* added-name table, the identifier field names and the id counter of its
\* builder as they were.
C20_RejectedCallStagesNothing ==
    [][\A b \in Builders :
        (call'.op \in StagingOps /\ call'.target = b /\ outcome'.exc # "none")
        => StagedState(builders'[b]) = StagedState(builders[b])]_vars

\* an add_column has just been rejected on a builder that holds staged
\* columns, updates or deletes
C20_Witness ==
    /\ call.op = "add_column"
    /\ outcome.exc = "ValueError"
    /\ builders[call.target].last_column_id > highest_field_id(builders[call.target].schema) + 1
    /\ DOMAIN builders[call.target].adds # {}

(***************************************************************************)
(* Properties of the scan planner (SpecScan).                              *)
(***************************************************************************)
\* the snapshot of the table with this id, or None
SnapshotWithId(table, id) ==
    IF \E i \in DOMAIN table.metadata.snapshots : table.metadata.snapshots[i].snapshot_id = id
    THEN CHOOSE snapshot \in SeqRange(table.metadata.snapshots) : snapshot.snapshot_id = id
    ELSE NoneValue

\* the snapshot a scan is to plan: the one its snapshot_id names, whatever
\* the id's value, else the table's current snapshot
TargetSnapshot(scan, table) ==
    IF scan.snapshot_id # NoNumber
    THEN SnapshotWithId(table, scan.snapshot_id[1])
    ELSE IF table.metadata.current_snapshot_id # NoNumber
    THEN SnapshotWithId(table, table.metadata.current_snapshot_id[1])
    ELSE NoneValue

\* the last call made is a plan_files (possibly still running)
Planning == call.op = "plan_files" /\ plan.pc # "idle"

\* C21: plan_files plans the snapshot whose id is set on the scan, for every
\* id value; a use_ref that returns has set the id of the ref's snapshot
\* (stage -> 17); without a snapshot_id the current snapshot is planned; and
\* when there is no such snapshot, plan_files returns no tasks, raises
\* nothing and reads neither a manifest list nor a manifest.
C21_PlansTargetSnapshot ==
    /\ (call.op = "use_ref" /\ outcome.exc = "none") =>
            scans[call.target].snapshot_id =
                Some(tables[scans[call.target].table].metadata.refs[call.args[1]].snapshot_id)
    /\ Planning =>
            /\ plan.snapshot = TargetSnapshot(scans[plan.scan], tables[scans[plan.scan].table])
            /\ IsNone(plan.snapshot) =>
                    /\ outcome = Returned([tasks |-> <<>>])
                    /\ plan.listed = "no"
                    /\ plan.opened = <<>>

\* the plan_files call made last has ended, on a snapshot
Planned == Planning /\ plan.pc = "done" /\ ~IsNone(plan.snapshot)

\* the row filter of the scan planned last
PlannedFilter == scans[plan.scan].row_filter

\* the row filter may match the manifest resp. the file
MayMatch(row_filter, verdict) == row_filter = ALWAYS_TRUE \/ verdict

\* the live entries of the manifests of a list that pass the manifest
\* evaluator, the partition evaluator and the metrics evaluator
RECURSIVE Surviving(_, _)
Surviving(manifest_list, row_filter) ==
    IF manifest_list = <<>> THEN <<>>
    ELSE (IF MayMatch(row_filter, Head(manifest_list).summary_match)
          THEN SelectSeq(Head(manifest_list).entries, LAMBDA e :
                    /\ e.status # "DELETED"
                    /\ MayMatch(row_filter, e.data_file.partition_match)
                    /\ MayMatch(row_filter, e.data_file.metrics_match))
          ELSE <<>>) \o Surviving(Tail(manifest_list), row_filter)

CountOf(seq, x) == Cardinality({i \in DOMAIN seq : seq[i] = x})

\* the data files of the tasks are the files of the surviving DATA entries, one task each
ExactlyTheData(tasks, surviving) ==
    LET files == [i \in DOMAIN tasks |-> tasks[i].file]
        data == SelectSeq(surviving, LAMBDA e : e.data_file.content = "DATA")
        expected == [i \in DOMAIN data |-> data[i].data_file]
    IN  /\ Len(files) = Len(expected)
        /\ \A i \in DOMAIN expected : CountOf(files, expected[i]) = CountOf(expected, expected[i])
        /\ \A i \in DOMAIN files : files[i].content = "DATA"

\* C22 for one finished plan
ExactPlan(surviving) ==
    /\ outcome.exc = "none" => ExactlyTheData(outcome.value.tasks, surviving)
    /\ (surviving = <<>> /\ outcome.exc # "OSError") => outcome = Returned([tasks |-> <<>>])

\* C22: the data files of the tasks plan_files returns are exactly the live
\* DATA entries of the target snapshot that lie in a manifest the manifest
\* evaluator keeps and that pass the partition and the metrics evaluator, one
\* task per entry; no delete file is a task's data file; and when every
\* entry is pruned, plan_files returns no tasks and raises nothing.
C22_TasksAreTheSurvivingData ==
    Planned => ExactPlan(Surviving(plan.snapshot.manifest_list, PlannedFilter))

\* a plan under the restricting row filter returned tasks, with a manifest
\* pruned, an entry pruned and a delete manifest opened
C22_Witness ==
    /\ Planned
    /\ PlannedFilter = RowFilter
    /\ outcome.exc = "none"
    /\ Len(outcome.value.tasks) > 0
    /\ Len(plan.manifests) < Len(plan.snapshot.manifest_list)
    /\ \E i \in DOMAIN plan.opened :
            /\ plan.opened[i].content = "DATA"
            /\ Len(plan.results[i].entries) < Len(plan.opened[i].entries)
    /\ \E i \in DOMAIN plan.opened : plan.opened[i].content = "DELETES"

\* the live entries of the manifests of a list
RECURSIVE LiveEntries(_)
LiveEntries(manifest_list) ==
    IF manifest_list = <<>> THEN <<>>
    ELSE SelectSeq(Head(manifest_list).entries, LAMBDA e : e.status # "DELETED")
            \o LiveEntries(Tail(manifest_list))

\* the data sequence number of the live entry that describes the file, a missing number counting as 0
SequenceNumberOf(live, file) ==
    LET entry == CHOOSE e \in SeqRange(live) : e.data_file = file
    IN  IF entry.data_sequence_number = NoNumber THEN 0 ELSE entry.data_sequence_number[1]

\* the path lies within the bounds the delete file records for its file_path column
WithinBounds(path, delete_file) ==
    /\ delete_file.lower_bound # NoNumber => delete_file.lower_bound[1] <= path
    /\ delete_file.upper_bound # NoNumber => path <= delete_file.upper_bound[1]

\* every delete file of every task is applicable to the task's data file
Applicable(tasks, live) ==
    \A i \in DOMAIN tasks : \A delete_file \in tasks[i].delete_files :
        /\ SequenceNumberOf(live, delete_file) >= SequenceNumberOf(live, tasks[i].file)
        /\ WithinBounds(tasks[i].file.file_path, delete_file)

\* C23: in every plan, each delete file paired with a data file d has a
\* data_sequence_number greater than or equal to d's, and d's file_path lies
\* within the lower and upper file_path bound the delete file records (a
\* bound it does not record excludes no path).
C23_PairedDeletesApplicable ==
    (Planned /\ outcome.exc = "none") =>
        Applicable(outcome.value.tasks, LiveEntries(plan.snapshot.manifest_list))

\* a plan paired a delete file that records bounds with a data file, while
\* an older delete file with the same bounds was among the candidates
C23_Witness ==
    /\ Planned
    /\ outcome.exc = "none"
    /\ \E i \in DOMAIN outcome.value.tasks :
            \E delete_file \in outcome.value.tasks[i].delete_files :
                delete_file.lower_bound # NoNumber
    /\ \E i \in DOMAIN plan.results :
            \E j \in DOMAIN plan.results[i].entries :
                /\ plan.results[i].entries[j].data_file.content = "POSITION_DELETES"
                /\ plan.results[i].entries[j].data_sequence_number = Some(4)

\* C24: whenever an EQUALITY_DELETES entry is among the live entries of the
\* target snapshot's manifests, a plan_files that could read them fails with
\* the unsupported-feature error (ValueError) and returns no tasks.
C24_EqualityDeletesRejected ==
    (/\ Planned
     /\ outcome.exc # "OSError"
     /\ \E e \in SeqRange(LiveEntries(plan.snapshot.manifest_list)) :
            e.data_file.content = "EQUALITY_DELETES")
        => outcome = Raised("ValueError")

\* what plan_files gives when one thread opens the manifests one after the other, in the list's order
SequentialPlan(manifest_list, row_filter) ==
    LET manifests == PrunedManifests(manifest_list, row_filter)
        opened == ManifestsToOpen(manifests, _min_data_file_sequence_number(manifests))
    IN  ChainedPlan([i \in DOMAIN opened |-> _open_manifest(opened[i], row_filter)],
                    [i \in DOMAIN opened |-> i])

\* no read of the finished plan failed: neither the manifest list's nor a manifest's
AllRead(p) ==
    /\ outcome.exc # "OSError"
    /\ \A i \in DOMAIN p.results : p.results[i].state = "done"

\* C25: for a fixed table and scan, plan_files returns the same tasks (the
\* same data files, the same delete files for each, in the same order), or
\* raises the same error, in whatever order the manifest workers finish:
\* the result is the one of opening the manifests one after the other.
C25_PlanIndependentOfWorkerOrder ==
    (Planned /\ AllRead(plan)) =>
        outcome = OutcomeOfValue(SequentialPlan(plan.snapshot.manifest_list, PlannedFilter))

\* a plan returned tasks from two manifests whose workers finished in the
\* opposite order of their submission
C25_Witness ==
    /\ Planned
    /\ AllRead(plan)
    /\ outcome.exc = "none"
    /\ \E i, j \in DOMAIN plan.completed :
            /\ i < j
            /\ plan.completed[i] > plan.completed[j]
            /\ \E e \in SeqRange(plan.results[plan.completed[i]].entries) :
                    e.data_file.content = "DATA"
            /\ \E e \in SeqRange(plan.results[plan.completed[j]].entries) :
                    e.data_file.content = "DATA"

\* a read of the plan failed: the manifest list's or a manifest's
ReadFailed(p) ==
    \/ p.listed = "failed"
    \/ \E i \in DOMAIN p.results : p.results[i].state = "failed"

\* C26: when reading the manifest list or a manifest fails during
\* plan_files, whichever worker fails and whenever, the call raises the
\* error and the caller receives no task, never a partial list.
C26_ReadFailureRaises ==
    /\ (Planning /\ plan.pc = "workers") => outcome = Running
    /\ (Planned /\ ReadFailed(plan)) => outcome = Raised("OSError")

\* a plan ended with a worker that failed after another worker had
\* delivered the data entries of its manifest
C26_Witness ==
    /\ Planned
    /\ \E i, j \in DOMAIN plan.completed :
            /\ i < j
            /\ plan.results[plan.completed[j]].state = "failed"
            /\ plan.results[plan.completed[i]].state = "done"
            /\ \E e \in SeqRange(plan.results[plan.completed[i]].entries) :
                    e.data_file.content = "DATA"

(***************************************************************************)
(* Properties of the FsspecFileIO (SpecIO).                                *)
(***************************************************************************)
\* the locations whose scheme, in whatever case, has no filesystem registered
Unregistered == {location \in Locations : location.scheme \notin {"s3", "S3", "s3a", "s3n"}}

\* the location a call was made with, be the argument a str or a file
ArgumentLocation(argument) ==
    IF "kind" \in DOMAIN argument THEN argument.location ELSE argument

C28_DeletedIdsHaveNoOtherChange ==
    \A b \in Builders : builders[b].alive =>
        \A field_id \in builders[b].deletes :
            /\ ~DictHas(builders[b].updates, field_id)
            /\ ~DictHas(builders[b].adds, field_id)

(***************************************************************************)
(* Properties of the scan planner (SpecScan), continued.                   *)
(***************************************************************************)
\* a sequence number, a missing one counting as 0
NumberOr0(number) == IF number = NoNumber THEN 0 ELSE number[1]

\* S*: the least min_sequence_number of the DATA manifests among these, 0 when there is none
SStar(manifests) ==
    LET numbers == {NumberOr0(m.min_sequence_number) :
                        m \in {d \in SeqRange(manifests) : d.content = "DATA"}}
    IN  IF numbers = {} THEN 0
        ELSE CHOOSE n \in numbers : \A other \in numbers : n <= other

\* C29 for the manifests that survived the pruning and those handed to the workers
SequenceDiscipline(surviving, opened) ==
    /\ SeqRange(opened) \subseteq SeqRange(surviving)
    /\ \A m \in SeqRange(surviving) :
            m \in SeqRange(opened) <=>
                \/ m.content = "DATA"
                \/ /\ m.content = "DELETES"
                   /\ NumberOr0(m.sequence_number) >= SStar(surviving)
    /\ \A m \in SeqRange(opened) :
            (m.content = "DELETES" /\ \E d \in SeqRange(opened) : d.content = "DATA") =>
                \E d \in SeqRange(opened) :
                    /\ d.content = "DATA"
                    /\ NumberOr0(m.sequence_number) >= NumberOr0(d.min_sequence_number)

\* C29: with S* the least min_sequence_number of the DATA manifests that
\* survive manifest pruning (0 when there is none, a missing number
\* counting as 0), plan_files opens a surviving manifest if and only if it
\* is a DATA manifest, or a DELETES manifest whose sequence_number (missing:
\* 0) is at least S*; so no opened delete manifest is older than every
\* retained data manifest.
C29_SequenceNumberDiscipline ==
    (Planning /\ plan.listed = "read") =>
        SequenceDiscipline(
            SelectSeq(plan.snapshot.manifest_list,
                      LAMBDA m : MayMatch(PlannedFilter, m.summary_match)),
            plan.opened)

\* a plan opened a delete manifest written at S* and left out an older one
C29_Witness ==
    /\ Planning
    /\ plan.listed = "read"
    /\ DataManifest5 \in SeqRange(plan.opened)
    /\ DeleteManifest5 \in SeqRange(plan.opened)
    /\ DeleteManifest3 \in SeqRange(plan.manifests)
    /\ DeleteManifest3 \notin SeqRange(plan.opened)

\* the positional deletes among the surviving entries that apply to the
\* data file: a strictly greater data sequence number, bounds that contain the path
ApplicableDeletes(file, surviving, live) ==
    {e.data_file : e \in {d \in SeqRange(surviving) :
        /\ d.data_file.content = "POSITION_DELETES"
        /\ NumberOr0(d.data_sequence_number) > SequenceNumberOf(live, file)
        /\ WithinBounds(file.file_path, d.data_file)}}

ExactDeletes(tasks, surviving, live) ==
    \A i \in DOMAIN tasks :
        tasks[i].delete_files = ApplicableDeletes(tasks[i].file, surviving, live)

\* C30: the delete_files of the task of a data entry d are exactly the
\* surviving positional-delete entries whose data_sequence_number is
\* strictly greater than d's (a missing number counting as 0) and whose
\* file_path bounds contain d's path; a delete with an equal or lower number
\* is left out, in whatever order the delete entries were collected.
C30_DeleteFilesExact ==
    (Planned /\ outcome.exc = "none") =>
        ExactDeletes(outcome.value.tasks,
                     Surviving(plan.snapshot.manifest_list, PlannedFilter),
                     LiveEntries(plan.snapshot.manifest_list))

\* the data file written at 5 got the delete written at 7 and neither the
\* one carried over from 4, nor the one written at 5, nor the one for other paths
C30_Witness ==
    /\ Planned
    /\ outcome.exc = "none"
    /\ DeleteManifest7 \in SeqRange(plan.opened)
    /\ DeleteManifest5 \in SeqRange(plan.opened)
    /\ \E i \in DOMAIN outcome.value.tasks :
            /\ outcome.value.tasks[i].file.file_path = 1
            /\ outcome.value.tasks[i].delete_files =
                    {DataFile("POSITION_DELETES", 10, Some(0), Some(2), TRUE, TRUE)}

(***************************************************************************)
(* Properties of the per-spec caches of plan_files (SpecScan).             *)
(***************************************************************************)
\* plan_files has handed its manifests to the executor
HandedToWorkers(p) == p.pc \in {"workers", "done"} /\ p.listed = "read"

\* each object of the per-spec caches was built at most once
BuiltOnce(p, scan) ==
    /\ \A i, j \in DOMAIN p.built : p.built[i] = p.built[j] => i = j
    /\ \A i, j \in DOMAIN scan.projected : scan.projected[i] = scan.projected[j] => i = j

\* the evaluators "used" on the manifests "on": the one installed for the
\* manifest's spec id, the same for manifests of the same spec id
SameInstalled(on, used, kind) ==
    /\ DOMAIN used = DOMAIN on
    /\ \A i \in DOMAIN on :
            /\ used[i].kind = kind
            /\ used[i].spec_id = on[i].partition_spec_id
    /\ \A i, j \in DOMAIN on :
            on[i].partition_spec_id = on[j].partition_spec_id => used[i] = used[j]

\* C31: within one plan_files call, the projected partition filter, the
\* manifest evaluator and the partition evaluator of each partition spec id
\* are constructed at most once, whatever the workers' interleaving, and all
\* manifests of the same spec id are filtered with the same installed evaluator.
C31_EvaluatorsBuiltOncePerSpec ==
    HandedToWorkers(plan) =>
        /\ BuiltOnce(plan, scans[plan.scan])
        /\ SameInstalled(plan.snapshot.manifest_list, plan.filtered_by, "manifest_evaluator")
        /\ SameInstalled(plan.opened, plan.opened_with, "partition_evaluator")

\* a finished plan over manifests of two specs, two of them of the same
\* spec, whose workers did not finish in the order they were submitted
C31_Witness ==
    /\ plan.pc = "done" /\ plan.listed = "read"
    /\ \E i, j \in DOMAIN plan.opened :
            /\ i # j
            /\ plan.opened[i].partition_spec_id = plan.opened[j].partition_spec_id
    /\ \E i, j \in DOMAIN plan.opened :
            plan.opened[i].partition_spec_id # plan.opened[j].partition_spec_id
    /\ plan.completed # SubmissionOrder(plan)
    /\ Len(plan.completed) = Len(plan.opened)

(***************************************************************************)
(* Properties of TableScan.update (SpecScan).                              *)
(***************************************************************************)
\* the constructor's parameters of a scan
Configuration(scan) ==
    [table |-> scan.table, row_filter |-> scan.row_filter, snapshot_id |-> scan.snapshot_id]

\* the step is scan = scan.use_ref(name) on a scan without snapshot id, for a known ref
UseRefReachesUpdate(s, name) ==
    /\ plan.pc # "workers"
    /\ scans[s].alive
    /\ call' = Call("use_ref", s, <<name>>)
    /\ scans[s].snapshot_id = NoNumber
    /\ name \in DOMAIN tables[scans[s].table].metadata.refs

\* C32: for a scan in any state, also after plan_files() was called on it,
\* update(**overrides) and the methods built on it (here use_ref) return a
\* new scan of the same type whose configuration is the receiver's except
\* for the overridden fields.
C32_UpdateReturnsCopy ==
    [][\A s \in Scans : \A name \in RefNames :
        UseRefReachesUpdate(s, name) =>
            /\ outcome' = Returned(NoneValue)
            /\ scans'[s].alive
            /\ Configuration(scans'[s]) =
                    [Configuration(scans[s]) EXCEPT !.snapshot_id =
                        Some(tables[scans[s].table].metadata.refs[name].snapshot_id)]]_vars

(***************************************************************************)
(* Properties of TableScan.projection (SpecProjection).                    *)
(***************************************************************************)
\* the schema of the table with the given id
SchemaWithId(table, schema_id) ==
    CHOOSE schema \in SeqRange(table.metadata.schemas) : schema.schema_id = schema_id

\* the schema the projection of a scan is to be built from
ProjectedSchema(table, snapshot) ==
    IF ~IsNone(snapshot) /\ snapshot.schema_id # NoNumber
    THEN SchemaWithId(table, snapshot.schema_id[1])
    ELSE Table_schema(table)

\* C33: projection() is built from the schema whose id is the schema_id of
\* the snapshot the scan reads (the one snapshot() resolves) whenever that
\* snapshot records one, for every id value including 0, and from the
\* table's current schema only when the snapshot records none or there
\* is no snapshot.
C33_ProjectionUsesSnapshotSchema ==
    call.op = "projection" =>
        outcome = Returned(ProjectedSchema(tables[scans[call.target].table],
                        TableScan_snapshot(scans[call.target], tables[scans[call.target].table])))

(***************************************************************************)
(* Properties of FsspecOutputFile.create (SpecCreate).                     *)
(***************************************************************************)
\* the step is the existence check of a create(overwrite=False) on a
\* location that exists
ChecksExisting ==
    /\ IsNone(fileio.creating)
    /\ call'.op = "create"
    /\ call'.args = <<fileio.handle.location, FALSE>>
    /\ fileio'.objects = fileio.objects
    /\ ObjectKey(fileio.handle.location) \in fileio.objects

\* C34: create(overwrite=False) raises FileExistsError and opens nothing
\* when the location exists at the time of its existence check.  The check
\* and the open are two steps: the state in which a create(overwrite=False)
\* has truncated a file that another process created in between is
\* reachable (C34_Witness).
C34_CreateRaisesOnExisting ==
    [][ChecksExisting => (outcome' = Raised("FileExistsError") /\ fileio' = fileio)]_vars

\* create(overwrite=False) returned after opening, and thereby truncating,
\* an object that was not in the store at the start: it passed its check, so
\* another process created the object between the check and the open
C34_Witness ==
    /\ call.op = "create"
    /\ call.args[2] = FALSE
    /\ outcome = Returned(NoneValue)
    /\ ObjectKey(call.args[1]) \in fileio.truncated
    /\ ObjectKey(call.args[1]) \notin InitialObjects
    /\ <<"wb", ObjectKey(call.args[1])>> \in fileio.streams

(***************************************************************************)
(* Properties of __len__ (SpecLen).                                        *)
(***************************************************************************)
\* the size the filesystem reports of an object, if it reports one
ReportedSize(object_info) ==
    IF DictHas(object_info, "Size") THEN Some(object_info["Size"])
    ELSE IF DictHas(object_info, "size") THEN Some(object_info["size"])
    ELSE NoNumber

\* C35: len() of an FsspecInputFile or FsspecOutputFile returns the
\* object's size in bytes for every existing object, a zero-byte object
\* included (result 0), and raises RuntimeError only when the filesystem
\* reports no size at all.
C35_LenIsTheSize ==
    (call.op = "len" /\ ObjectKey(call.args[1]) \in fileio.objects) =>
        LET reported == ReportedSize(fileio.info[ObjectKey(call.args[1])])
        IN  IF reported = NoNumber
            THEN outcome = Raised("RuntimeError")
            ELSE outcome = Returned(reported[1])

(***************************************************************************)
(* Properties of tabular_signer (SpecSign).                                *)
(***************************************************************************)
\* the call to the signer endpoint succeeded
SignerSucceeded(reply) == reply.kind = "response" /\ reply.status_code < 400

\* C36: when the call to the signer endpoint fails in any way (an HTTP
\* error status or a transport failure), tabular_signer raises SignError and
\* adds no header to the outbound request; only on success are the headers
\* of the signer's response added to the request.
C36_SignerFailureRaisesSignError ==
    call.op = "tabular_signer" =>
        IF SignerSucceeded(call.args[2])
        THEN /\ outcome = Returned(NoneValue)
             /\ fileio.request.headers = call.args[1].headers \o call.args[2].headers
        ELSE /\ outcome = Raised("SignError")
             /\ fileio.request = call.args[1]

(***************************************************************************)
(* Properties of the Avro reader tree (SpecAvro).                          *)
(***************************************************************************)
\* where a call left the decoder
Advance(d) == [pos |-> d.pos, exc |-> d.exc]

\* C37: for every reader of the reader tree and every well-formed encoded
\* value, skip(decoder) advances the decoder by exactly as many bytes as
\* read(decoder) would, also for lists and maps encoded in several blocks
\* and in blocks written with a negative item count followed by the
\* block's size in bytes.
C37_SkipAdvancesAsRead ==
    decoder.op = "skip" =>
        Advance(decoder.d) =
            Advance(Reader_read(decoder.reader, BinaryDecoder(decoder.d.buffer)))

(***************************************************************************)
(* Properties of UpdateSchema.commit inside a transaction (Spec).          *)
(***************************************************************************)
\* the schema updates of one UpdateSchema.commit end the staged updates
StagedSchemaUpdates(before, after) ==
    /\ Len(after.updates) = Len(before.updates) + 2
    /\ SubSeq(after.updates, 1, Len(before.updates)) = before.updates
    /\ after.updates[Len(before.updates) + 1].action = "add-schema"
    /\ after.updates[Len(before.updates) + 2] = SetCurrentSchemaUpdate(-1)

\* the requirement of one UpdateSchema.commit ends the staged requirements
StagedSchemaRequirement(before, after) ==
    /\ Len(after.requirements) = Len(before.requirements) + 1
    /\ SubSeq(after.requirements, 1, Len(before.requirements)) = before.requirements
    /\ after.requirements[Len(after.requirements)].type = "assert-current-schema-id"

\* C38: UpdateSchema.commit() inside a transaction is all-or-nothing for the
\* transaction's staged state: after it returns or raises, the transaction
\* holds either both the schema updates (AddSchema, SetCurrentSchema) and
\* the AssertCurrentSchemaId requirement, or neither of them, whatever was
\* staged before.
C38_SchemaCommitStagesAllOrNothing ==
    [][\A b \in Builders :
        (call'.op = "commit" /\ call'.target = b
            /\ builders[b].transaction # NoTransaction) =>
            LET x == builders[b].transaction
            IN  \/ /\ StagedSchemaUpdates(txn[x], txn'[x])
                   /\ StagedSchemaRequirement(txn[x], txn'[x])
                \/ /\ txn'[x].updates = txn[x].updates
                   /\ txn'[x].requirements = txn[x].requirements]_vars

(***************************************************************************)
(* Properties of the pairing under a row filter (SpecDeletes).             *)
(***************************************************************************)
\* the live entries of the manifests of a list that pass the manifest
\* evaluator and the partition evaluator
RECURSIVE PartitionPruned(_, _)
PartitionPruned(manifest_list, row_filter) ==
    IF manifest_list = <<>> THEN <<>>
    ELSE (IF MayMatch(row_filter, Head(manifest_list).summary_match)
          THEN SelectSeq(Head(manifest_list).entries, LAMBDA e :
                    /\ e.status # "DELETED"
                    /\ MayMatch(row_filter, e.data_file.partition_match))
          ELSE <<>>) \o PartitionPruned(Tail(manifest_list), row_filter)

\* every positional delete among the entries that is applicable to a task's
\* data file is among the task's delete files
KeepsApplicableDeletes(tasks, live, entries) ==
    \A i \in DOMAIN tasks : \A e \in SeqRange(entries) :
        (/\ e.data_file.content = "POSITION_DELETES"
         /\ SequenceNumberOf(live, e.data_file) > SequenceNumberOf(live, tasks[i].file)
         /\ WithinBounds(tasks[i].file.file_path, e.data_file))
            => e.data_file \in tasks[i].delete_files

\* C39: the row filter's column-metrics pruning never removes an applicable
\* delete: for every data file d that plan_files emits, every live
\* positional-delete entry of the snapshot that passes the manifest
\* evaluator and the partition evaluator, has a data_sequence_number greater
\* than d's and file_path bounds containing d's path is in the task's
\* delete_files, whatever the row filter is.
C39_MetricsPruningKeepsDeletes ==
    (Planned /\ outcome.exc = "none") =>
        KeepsApplicableDeletes(outcome.value.tasks,
                               LiveEntries(plan.snapshot.manifest_list),
                               PartitionPruned(plan.snapshot.manifest_list, PlannedFilter))

(***************************************************************************)
(* Properties of the with statement (SpecWith).                            *)
(***************************************************************************)
\* the step is the __exit__ call that ends the block of x
Exits(x) == txn[x].block.pc = "inside" /\ txn'[x].block.pc # "inside"

\* the step leaves the with statement of x
Leaves(x) == txn[x].block.pc \in {"inside", "exiting"} /\ txn'[x].block.pc = "left"

\* C40: leaving a "with table.transaction()" block calls commit_transaction
\* exactly once, whether the block ended normally or by raising: the updates
\* staged before an exception in the block are still sent to the catalog,
\* and the exception then propagates to the caller.
C40_ExitCommitsOnceAndPropagates ==
    [][\A x \in Txns :
            /\ (Exits(x) /\ Len(txn[x].updates) > 0) =>
                    /\ catalog'.calls = catalog.calls + 1
                    /\ catalog'.request.updates = txn[x].updates
                    /\ catalog'.request.requirements = txn[x].requirements
            /\ Leaves(x) =>
                    /\ txn'[x].block.commits = 1
                    /\ txn'[x].block.value # "none" =>
                            outcome' = Raised(txn'[x].block.value)]_vars

====
